---- MODULE Spec2Model ----
(***************************************************************************)
(* Model of the SearXNG Script Filter (scripts/search.js): the bang        *)
(* parser, the two-tier fetch strategy, the response classification, the  *)
(* favicon resolver with its per-search budget and the item list that     *)
(* search() returns through run().                                         *)
(*                                                                         *)
(* Strings are sequences of one-character strings, so that trimming,       *)
(* regular-expression replacement and length are computed character by     *)
(* character as the JavaScript does.                                       *)
(***************************************************************************)
EXTENDS Integers, Sequences, FiniteSets, TLC

(***************************************************************************)
(* Bounds of the model.                                                    *)
(***************************************************************************)
\* largest number of results in a backend response
MaxResults == 11
\* largest number of suggestions in an autocomplete response
MaxSuggestions == 2
\* number of invocations one process runs one after the other
MaxInvocations == 2
\* tokens of a query handed to parseBangs directly
MaxTokens == 3
\* characters of a string handed to shellEscape or to the HMAC helpers
MaxStrLen == 3

(***************************************************************************)
(* Program constants.                                                      *)
(***************************************************************************)
\* search.js:312
MAX_FAVICON_FETCHES_PER_SEARCH == 10
\* search.js:256, trimmed.length > 3
FULL_RESULTS_THRESHOLD == 3
\* search.js:737 and 843 / 878
SHORT_CACHE_SECONDS == 30
LONG_CACHE_SECONDS == 60

Undefined == "undefined"

(***************************************************************************)
(* Strings.                                                                *)
(***************************************************************************)
TAB == "\t"

\* the characters JavaScript's \s and trim() treat as white space, as far
\* as the model's alphabet goes
IsSpace(c) == c \in {" ", TAB}

\* characters outside the Basic Multilingual Plane: one character, two
\* UTF-16 code units, four UTF-8 bytes
AstralChars == {"U+1F600"}
\* characters of the Latin-1 supplement: one UTF-16 code unit, two bytes
Latin1Chars == {"U+00E9"}

Utf16Units(c) == IF c \in AstralChars THEN 2 ELSE 1

Utf8Bytes(c) == IF c \in AstralChars THEN 4 ELSE IF c \in Latin1Chars THEN 2 ELSE 1

\* String.prototype.length: the number of UTF-16 code units
RECURSIVE length(_)
length(s) == IF s = <<>> THEN 0 ELSE Utf16Units(Head(s)) + length(Tail(s))

\* the number of bytes of the UTF-8 encoding
RECURSIVE byteLength(_)
byteLength(s) == IF s = <<>> THEN 0 ELSE Utf8Bytes(Head(s)) + byteLength(Tail(s))

\* the number of Unicode characters (code points)
charCount(s) == Len(s)

RECURSIVE trimStart(_)
trimStart(s) == IF s # <<>> /\ IsSpace(Head(s)) THEN trimStart(Tail(s)) ELSE s

RECURSIVE trimEnd(_)
trimEnd(s) ==
    IF s # <<>> /\ IsSpace(s[Len(s)]) THEN trimEnd(SubSeq(s, 1, Len(s) - 1)) ELSE s

\* String.prototype.trim
trim(s) == trimEnd(trimStart(s))

\* the "i" flag of the bang regular expressions
UpperCase ==
    <<"A", "B", "C", "D", "E", "F", "G", "H", "I", "J", "K", "L", "M",
      "N", "O", "P", "Q", "R", "S", "T", "U", "V", "W", "X", "Y", "Z">>
LowerCase ==
    <<"a", "b", "c", "d", "e", "f", "g", "h", "i", "j", "k", "l", "m",
      "n", "o", "p", "q", "r", "s", "t", "u", "v", "w", "x", "y", "z">>

Lower(c) ==
    IF \E i \in 1..Len(UpperCase) : UpperCase[i] = c
    THEN LowerCase[CHOOSE i \in 1..Len(UpperCase) : UpperCase[i] = c]
    ELSE c

\* url.replace(/\/+$/, "")
RECURSIVE stripTrailingSlashes(_)
stripTrailingSlashes(u) ==
    IF u # <<>> /\ u[Len(u)] = "/"
    THEN stripTrailingSlashes(SubSeq(u, 1, Len(u) - 1))
    ELSE u

(***************************************************************************)
(* shellEscape (search.js:110-112) and the shell that reads its result.    *)
(***************************************************************************)
QUOTE == "'"
BACKSLASH == "\\"
DQUOTE == "\""
\* the backquote, written by its code point
BACKQUOTE == "U+0060"

\* str.replace(/'/g, "'\\''")
RECURSIVE EscapeQuotes(_)
EscapeQuotes(str) ==
    IF str = <<>> THEN <<>>
    ELSE (IF Head(str) = QUOTE THEN <<QUOTE, BACKSLASH, QUOTE, QUOTE>> ELSE <<Head(str)>>)
           \o EscapeQuotes(Tail(str))

\* a shellEscape that only wraps the string in quotes
shellEscape_WrapOnly(str) == <<QUOTE>> \o str \o <<QUOTE>>

shellEscape(str) == <<QUOTE>> \o EscapeQuotes(str) \o <<QUOTE>>

\* The words a POSIX shell makes of a command text (sh, as doShellScript
\* runs it): quote removal by the rules for single quotes, double quotes
\* and the backslash.  mode is "plain", "single" or "double"; word is the
\* word being built and inWord tells that it exists (a pair of quotes makes
\* an empty word); expands records an unquoted or double-quoted $ or
\* backquote, and an unquoted ; that would end the command.
RECURSIVE ShellRead(_, _, _, _, _, _, _)
ShellRead(text, i, mode, word, inWord, words, expands) ==
    IF i > Len(text)
    THEN [words |-> IF inWord THEN Append(words, word) ELSE words,
          expands |-> expands,
          closed |-> mode = "plain"]
    ELSE LET c == text[i]
         IN  CASE mode = "single" ->
                    IF c = QUOTE
                    THEN ShellRead(text, i + 1, "plain", word, TRUE, words, expands)
                    ELSE ShellRead(text, i + 1, "single", Append(word, c), TRUE, words, expands)
               [] mode = "double" ->
                    IF c = DQUOTE
                    THEN ShellRead(text, i + 1, "plain", word, TRUE, words, expands)
                    ELSE IF c = BACKSLASH /\ i < Len(text)
                            /\ text[i + 1] \in {"$", BACKQUOTE, DQUOTE, BACKSLASH}
                    THEN ShellRead(text, i + 2, "double", Append(word, text[i + 1]), TRUE,
                                   words, expands)
                    ELSE ShellRead(text, i + 1, "double", Append(word, c), TRUE, words,
                                   expands \/ c \in {"$", BACKQUOTE})
               [] OTHER ->
                    IF c = QUOTE
                    THEN ShellRead(text, i + 1, "single", word, TRUE, words, expands)
                    ELSE IF c = DQUOTE
                    THEN ShellRead(text, i + 1, "double", word, TRUE, words, expands)
                    ELSE IF c = BACKSLASH /\ i < Len(text)
                    THEN ShellRead(text, i + 2, "plain", Append(word, text[i + 1]), TRUE,
                                   words, expands)
                    ELSE IF IsSpace(c)
                    THEN ShellRead(text, i + 1, "plain", <<>>, FALSE,
                                   IF inWord THEN Append(words, word) ELSE words, expands)
                    ELSE ShellRead(text, i + 1, "plain", Append(word, c), TRUE, words,
                                   expands \/ c \in {"$", BACKQUOTE, ";"})

ShellWords(text) == ShellRead(text, 1, "plain", <<>>, FALSE, <<>>, FALSE)

(***************************************************************************)
(* parseBangs (search.js:121-188).                                         *)
(***************************************************************************)
categoryBangs ==
    << [bang |-> <<"!", "i", "m", "a", "g", "e", "s">>, value |-> "images"],
       [bang |-> <<"!", "i">>, value |-> "images"],
       [bang |-> <<"!", "n", "e", "w", "s">>, value |-> "news"],
       [bang |-> <<"!", "n">>, value |-> "news"],
       [bang |-> <<"!", "v", "i", "d", "e", "o", "s">>, value |-> "videos"],
       [bang |-> <<"!", "v">>, value |-> "videos"],
       [bang |-> <<"!", "m", "a", "p", "s">>, value |-> "maps"] >>

\* a time-range dictionary that also knows the week
timeRangeBangs_WithWeek ==
    << [bang |-> <<"!", "d">>, value |-> "day"],
       [bang |-> <<"!", "w">>, value |-> "week"],
       [bang |-> <<"!", "m">>, value |-> "month"],
       [bang |-> <<"!", "y">>, value |-> "year"] >>

timeRangeBangs ==
    << [bang |-> <<"!", "d">>, value |-> "day"],
       [bang |-> <<"!", "m">>, value |-> "month"],
       [bang |-> <<"!", "y">>, value |-> "year"] >>

\* the bang itself, compared without regard to case, at position j of str
BangAt(str, bang, j) ==
    /\ j + Len(bang) - 1 <= Len(str)
    /\ \A k \in 1..Len(bang) : Lower(str[j + k - 1]) = Lower(bang[k])

\* a bang that needs no boundary after it
AfterAt_NoBoundary(str, j) ==
    IF j <= Len(str) /\ IsSpace(str[j]) THEN <<str[j]>> ELSE <<>>

\* (\s|$) at position j: the matched text, or Undefined when it fails
AfterAt(str, j) ==
    IF j <= Len(str) /\ IsSpace(str[j]) THEN <<str[j]>>
    ELSE IF j = Len(str) + 1 THEN <<>>
    ELSE Undefined

\* one attempt of (^|\s)bang(\s|$) at position i: the groups and the length
\* of the match, or ok = FALSE
MatchAt(str, bang, i) ==
    IF i = 1 /\ BangAt(str, bang, 1) /\ AfterAt(str, 1 + Len(bang)) # Undefined
    THEN [ok |-> TRUE, before |-> <<>>, after |-> AfterAt(str, 1 + Len(bang)),
          len |-> Len(bang) + Len(AfterAt(str, 1 + Len(bang)))]
    ELSE IF /\ IsSpace(str[i])
            /\ BangAt(str, bang, i + 1)
            /\ AfterAt(str, i + 1 + Len(bang)) # Undefined
    THEN [ok |-> TRUE, before |-> <<str[i]>>, after |-> AfterAt(str, i + 1 + Len(bang)),
          len |-> 1 + Len(bang) + Len(AfterAt(str, i + 1 + Len(bang)))]
    ELSE [ok |-> FALSE, before |-> <<>>, after |-> <<>>, len |-> 0]

\* a callback that keeps the white space of both sides mid-string
BangReplacement_KeepBoth(before, after) ==
    IF before = <<>> THEN <<>>
    ELSE IF after = <<>> THEN before
    ELSE before \o after

\* the replacement callback of replaceBang
BangReplacement(before, after) ==
    IF before = <<>> THEN <<>>
    ELSE IF after = <<>> THEN before
    ELSE <<" ">>

\* str.replace(regex, callback) with the "g" flag, scanning from position i
RECURSIVE ReplaceFrom(_, _, _)
ReplaceFrom(str, bang, i) ==
    IF i > Len(str) THEN <<>>
    ELSE LET m == MatchAt(str, bang, i)
         IN  IF m.ok
             THEN BangReplacement(m.before, m.after) \o ReplaceFrom(str, bang, i + m.len)
             ELSE <<str[i]>> \o ReplaceFrom(str, bang, i + 1)

replaceBang(str, bang) == ReplaceFrom(str, bang, 1)

\* a single pass in the place of the loop
RemoveLoop_Once(cleanQuery, bang) == replaceBang(cleanQuery, bang)

\* the while loop that removes one bang until the query no longer changes
RECURSIVE RemoveLoop(_, _)
RemoveLoop(cleanQuery, bang) ==
    LET newQuery == replaceBang(cleanQuery, bang)
    IN  IF newQuery # cleanQuery THEN RemoveLoop(newQuery, bang) ELSE cleanQuery

\* a loop in which the first bang found keeps its value
RECURSIVE ExtractBangs_FirstWins(_, _, _, _)
ExtractBangs_FirstWins(cleanQuery, value, dict, k) ==
    IF k > Len(dict) THEN [query |-> cleanQuery, value |-> value]
    ELSE LET hit == replaceBang(cleanQuery, dict[k].bang) # cleanQuery
         IN  ExtractBangs_FirstWins(RemoveLoop(cleanQuery, dict[k].bang),
                                    IF hit /\ value = Undefined THEN dict[k].value
                                    ELSE value,
                                    dict, k + 1)

\* the for loop over one dictionary, from entry k on: the query and the value
\* retained so far
RECURSIVE ExtractBangs(_, _, _, _)
ExtractBangs(cleanQuery, value, dict, k) ==
    IF k > Len(dict) THEN [query |-> cleanQuery, value |-> value]
    ELSE LET hit == replaceBang(cleanQuery, dict[k].bang) # cleanQuery
         IN  ExtractBangs(RemoveLoop(cleanQuery, dict[k].bang),
                          IF hit THEN dict[k].value ELSE value,
                          dict, k + 1)

\* the length of the run of white space that starts at position i
RECURSIVE SpaceRun(_, _)
SpaceRun(s, i) == IF i <= Len(s) /\ IsSpace(s[i]) THEN 1 + SpaceRun(s, i + 1) ELSE 0

\* a collapse of long runs to one space
RECURSIVE CollapseFrom_Single(_, _)
CollapseFrom_Single(s, i) ==
    IF i > Len(s) THEN <<>>
    ELSE IF SpaceRun(s, i) >= 3 THEN <<" ">> \o CollapseFrom_Single(s, i + SpaceRun(s, i))
    ELSE <<s[i]>> \o CollapseFrom_Single(s, i + 1)

\* s.replace(/\s{3,}/g, "  ")
RECURSIVE CollapseFrom(_, _)
CollapseFrom(s, i) ==
    IF i > Len(s) THEN <<>>
    ELSE IF SpaceRun(s, i) >= 3 THEN <<" ", " ">> \o CollapseFrom(s, i + SpaceRun(s, i))
    ELSE <<s[i]>> \o CollapseFrom(s, i + 1)

parseBangs(query) ==
    LET cat == ExtractBangs(query, Undefined, categoryBangs, 1)
        tr  == ExtractBangs(cat.query, Undefined, timeRangeBangs, 1)
    IN  [query |-> trim(CollapseFrom(tr.query, 1)),
         category |-> cat.value,
         timeRange |-> tr.value]


\* search.js:254-257
shouldShowFullResults(query) == length(trim(query)) > FULL_RESULTS_THRESHOLD

(***************************************************************************)
(* JavaScript values that arrive from JSON.parse.                          *)
(***************************************************************************)
JUndefined == [t |-> "undefined"]
JNull == [t |-> "null"]
JNumber(n) == [t |-> "number", n |-> n]
JString(s) == [t |-> "string", s |-> s]
JArray(elems) == [t |-> "array", elems |-> elems]
\* the fields of a search response that search() reads
JResponse(error, results) == [t |-> "object", error |-> error, results |-> results]
\* the fields of one result that resultToAlfredItem reads
JResult(url, title) == [t |-> "object", url |-> url, title |-> title]

\* ToBoolean
Truthy(v) ==
    CASE v.t \in {"undefined", "null"} -> FALSE
      [] v.t = "number" -> v.n # 0
      [] v.t = "string" -> v.s # <<>>
      [] OTHER -> TRUE

\* reading a property of null or undefined throws a TypeError
PropertyReadThrows(v) == v.t \in {"undefined", "null"}

\* v.error and v.results, for a value whose properties can be read
GetError(v) == IF v.t = "object" /\ "error" \in DOMAIN v THEN v.error ELSE JUndefined
GetResults(v) == IF v.t = "object" /\ "results" \in DOMAIN v THEN v.results ELSE JUndefined

\* v.length === 0
LengthIsZero(v) ==
    CASE v.t = "array" -> v.elems = <<>>
      [] v.t = "string" -> v.s = <<>>
      [] OTHER -> FALSE

\* only arrays have a map method
HasMap(v) == v.t = "array"

(***************************************************************************)
(* What the shell command of httpGet can produce: curl exits non-zero     *)
(* (doShellScript throws) or prints a body.  A body is kept as what the    *)
(* code asks of it: whether it is empty or blank, which marker texts it    *)
(* contains, and the value JSON.parse gives for it.                        *)
(***************************************************************************)
Markers == {"curl:", "Could not resolve", "<!DOCTYPE", "<html"}
NoJson == [t |-> "invalid"]

EmptyBody == [kind |-> "empty", markers |-> {}, json |-> NoJson]
BlankBody == [kind |-> "blank", markers |-> {}, json |-> NoJson]
\* null in the place of the response text
NullData == [kind |-> "null", markers |-> {}, json |-> NoJson]
TextBody(markers) == [kind |-> "text", markers |-> markers, json |-> NoJson]
JsonBody(markers, value) == [kind |-> "json", markers |-> markers, json |-> value]

includes(body, marker) == marker \in body.markers

CurlThrew == [threw |-> TRUE, body |-> EmptyBody]
CurlPrinted(body) == [threw |-> FALSE, body |-> body]

\* search.js:283-301
httpGet(outcome) ==
    IF outcome.threw
    THEN [success |-> FALSE, data |-> EmptyBody]
    ELSE IF \/ outcome.body.kind = "empty"
            \/ includes(outcome.body, "curl:")
            \/ includes(outcome.body, "Could not resolve")
    THEN [success |-> FALSE, data |-> EmptyBody]
    ELSE [success |-> TRUE, data |-> outcome.body]

\* a parser that takes a string in the place of the list for a list of one
parseAutocompleteResponse_StringAsList(responseData) ==
    IF responseData.kind \in {"empty", "null"} THEN <<>>
    ELSE IF responseData.kind # "json" THEN <<>>
    ELSE LET parsed == responseData.json
         IN  IF parsed.t # "array" \/ Len(parsed.elems) < 2 THEN <<>>
             ELSE IF parsed.elems[2].t = "string" THEN <<parsed.elems[2].s>>
             ELSE IF parsed.elems[2].t # "array" THEN <<>>
             ELSE parsed.elems[2].elems

\* search.js:196-207; !responseData holds for null and for the empty string
parseAutocompleteResponse(responseData) ==
    IF responseData.kind \in {"empty", "null"} THEN <<>>
    ELSE IF responseData.kind # "json" THEN <<>>
    ELSE LET parsed == responseData.json
         IN  IF \/ parsed.t # "array"
                \/ Len(parsed.elems) < 2
                \/ parsed.elems[2].t # "array"
             THEN <<>>
             ELSE parsed.elems[2].elems

\* an autocomplete client that reports a failed request as a suggestion
fetchAutocomplete_SurfaceFailure(outcome) ==
    LET response == httpGet(outcome)
    IN  IF ~response.success \/ response.data.kind = "empty"
        THEN << <<"autocomplete failed">> >>
        ELSE parseAutocompleteResponse(response.data)

\* search.js:266-275, given what the request produced
fetchAutocomplete(outcome) ==
    LET response == httpGet(outcome)
    IN  IF ~response.success \/ response.data.kind = "empty"
        THEN <<>>
        ELSE parseAutocompleteResponse(response.data)

\* search.js:47-53, on an already numeric setting (0 stands for a setting
\* that does not parse as a number)
parseTimeout(value) == IF value <= 0 THEN 5000 ELSE IF value < 30000 THEN value ELSE 30000

\* Math.ceil(timeoutMs / 1000)
CeilSeconds(ms) == (ms + 999) \div 1000

Min(a, b) == IF a < b THEN a ELSE b

\* what $.getenv does for a variable: it throws when the variable is not
\* set, and returns its text otherwise
Unset == [set |-> FALSE, text |-> <<>>]
EnvText(text) == [set |-> TRUE, text |-> text]

\* search.js:26-36
getEnv(env, defaultValue) ==
    IF ~env.set \/ env.text = <<>> THEN defaultValue ELSE trim(env.text)

Digits == <<"0", "1", "2", "3", "4", "5", "6", "7", "8", "9">>
IsDigit(c) == \E d \in 1..10 : Digits[d] = c
DigitValue(c) == (CHOOSE d \in 1..10 : Digits[d] = c) - 1

\* the value of the longest prefix of decimal digits of s after the digits
\* already read; NaN when no digit was read at all
NaN == [nan |-> TRUE, n |-> 0]
RECURSIVE ParseDigits(_, _, _)
ParseDigits(s, read, n) ==
    IF s # <<>> /\ IsDigit(Head(s)) THEN ParseDigits(Tail(s), TRUE, 10 * n + DigitValue(Head(s)))
    ELSE IF read THEN [nan |-> FALSE, n |-> n]
    ELSE NaN

\* Number.parseInt(value, 10): leading white space, an optional sign, then
\* decimal digits up to the first other character
parseInt(value) ==
    LET s == trimStart(value)
        signed == s # <<>> /\ Head(s) \in {"-", "+"}
        parsed == ParseDigits(IF signed THEN Tail(s) ELSE s, FALSE, 0)
    IN  IF signed /\ Head(s) = "-" THEN [parsed EXCEPT !.n = 0 - @] ELSE parsed

\* CONFIG.timeoutMs of search.js:57: parseTimeout(getEnv("timeout_ms", "5000"))
ConfigTimeoutMs(env) ==
    LET parsed == parseInt(getEnv(env, <<"5", "0", "0", "0">>))
    IN  IF parsed.nan THEN 5000 ELSE parseTimeout(parsed.n)

\* an autocomplete request given the whole timeout
AutocompleteTimeout_Uncapped(secs) == secs

\* the timeout fetchAutocomplete gives httpGet, search.js:268
AutocompleteTimeout(secs) == Min(secs, 2)

(***************************************************************************)
(* Alfred items.  Every item is a record of the same shape; a field the    *)
(* JavaScript object does not have holds NoArg, NoIcon or the empty        *)
(* sequence.  "kind" is not a field of the JavaScript object: it records   *)
(* which constructor built the item.  "valid" is the value Alfred acts on: *)
(* an item without the field is actionable.                                *)
(***************************************************************************)
NoArg == [type |-> "none"]
DocsUrl == [type |-> "docs"]
TextArg(text) == [type |-> "text", text |-> text]
BackendUrl(base) == [type |-> "backend", base |-> base]
\* {base}/search?q={encodeURIComponent(q)}[&format=json][&categories=..][&time_range=..]
SearchUrl(base, q, format, category, timeRange) ==
    [type |-> "search", base |-> base, q |-> q, format |-> format,
     categories |-> category, time_range |-> timeRange]
AutocompleteUrl(base, q) == [type |-> "autocompleter", base |-> base, q |-> q]

NoIcon == <<>>
GenericIcon == <<"icon.png">>

Capitalize(category) ==
    CASE category = "images" -> "Images"
      [] category = "news" -> "News"
      [] category = "videos" -> "Videos"
      [] category = "maps" -> "Maps"
      [] OTHER -> category

TimeLabel(timeRange) ==
    CASE timeRange = "day" -> "Past day"
      [] timeRange = "month" -> "Past month"
      [] timeRange = "year" -> "Past year"
      [] OTHER -> timeRange

\* search.js:529-539: the parts that are joined with a middle dot
formatFilterSubtitle(category, timeRange) ==
    (IF category # Undefined THEN <<Capitalize(category)>> ELSE <<>>)
      \o (IF timeRange # Undefined THEN <<TimeLabel(timeRange)>> ELSE <<>>)

\* search.js:548-564
errorItem(title, subtitle, arg) ==
    [kind |-> "error", title |-> <<title>>, subtitle |-> subtitle,
     valid |-> arg # NoArg, arg |-> arg, icon |-> NoIcon]

\* the item literal of the two blank-query guards, search.js:693-697, 710-714
placeholderItem(subtitle) ==
    [kind |-> "placeholder", title |-> <<"Search SearXNG...">>, subtitle |-> subtitle,
     valid |-> FALSE, arg |-> NoArg, icon |-> NoIcon]

\* search.js:216-245
suggestionToAlfredItem(suggestion, category, timeRange) ==
    [kind |-> "suggestion", title |-> suggestion,
     subtitle |-> <<"Search">> \o (IF category # Undefined THEN <<category>> ELSE <<>>)
                    \o (IF timeRange # Undefined THEN <<TimeLabel(timeRange)>> ELSE <<>>)
                    \o <<"for this suggestion">>,
     valid |-> TRUE, arg |-> TextArg(suggestion), icon |-> GenericIcon]

\* search.js:574-590
fallbackItem(query, searxngUrl, category, timeRange) ==
    [kind |-> "fallback", title |-> <<"Search \"">> \o query \o <<"\" in browser">>,
     subtitle |-> <<"Open SearXNG web interface">> \o formatFilterSubtitle(category, timeRange),
     valid |-> TRUE, arg |-> SearchUrl(searxngUrl, query, FALSE, category, timeRange),
     icon |-> GenericIcon]

\* search.js:597-603
separatorItem(label) ==
    [kind |-> "separator", title |-> <<label>>, subtitle |-> <<>>,
     valid |-> FALSE, arg |-> NoArg, icon |-> GenericIcon]

\* the object search() returns
NoCache == [present |-> FALSE, seconds |-> 0, loosereload |-> FALSE]
Cache(seconds) == [present |-> TRUE, seconds |-> seconds, loosereload |-> TRUE]
Response(items, cache) == [items |-> items, cache |-> cache]
NoResponse == Response(<<>>, NoCache)

\* a buildResponse that also caches for 0 seconds
buildResponse_ZeroCached(items, cacheSeconds, enableResultCache) ==
    IF enableResultCache /\ cacheSeconds.t = "number" /\ cacheSeconds.n >= 0
    THEN Response(items, Cache(cacheSeconds.n))
    ELSE Response(items, NoCache)

\* buildResponse(items, cacheSeconds), with CONFIG.enableResultCache as its
\* third argument: the cache object is set when caching is enabled and
\* cacheSeconds > 0, a comparison that is false for undefined and null
buildResponse(items, cacheSeconds, enableResultCache) ==
    IF enableResultCache /\ cacheSeconds.t = "number" /\ cacheSeconds.n > 0
    THEN Response(items, Cache(cacheSeconds.n))
    ELSE Response(items, NoCache)

\* seq.map(F)
RECURSIVE MapSuggestions(_, _, _)
MapSuggestions(suggestions, category, timeRange) ==
    IF suggestions = <<>> THEN <<>>
    ELSE <<suggestionToAlfredItem(Head(suggestions), category, timeRange)>>
           \o MapSuggestions(Tail(suggestions), category, timeRange)

(***************************************************************************)
(* Result URLs, domains and cache files.                                   *)
(***************************************************************************)
Url(scheme, www, host) == [t |-> "string", scheme |-> scheme, www |-> www, host |-> host]

\* the text of a URL
UrlText(url) ==
    <<url.scheme, ":", "/", "/">> \o (IF url.www THEN <<"www", ".">> ELSE <<>>) \o url.host

\* search.js:70-78: /^https?:\/\/(?:www\.)?([^\/]+)/, or the URL itself
extractDomain(url) ==
    IF url.scheme \in {"http", "https"} /\ url.host # <<>> THEN url.host ELSE UrlText(url)

SafeFilenameChars == {"a", "b", "c", ".", "-", "www", "ftp", "http", "https"}

\* search.js:381-383
RECURSIVE sanitizeDomainForFilename(_)
sanitizeDomainForFilename(domain) ==
    IF domain = <<>> THEN <<>>
    ELSE <<IF Head(domain) \in SafeFilenameChars THEN Head(domain) ELSE "_">>
           \o sanitizeDomainForFilename(Tail(domain))

\* `${cacheDir}/${sanitizeDomainForFilename(domain)}.png`
FaviconPath(domain) == <<"favicons", "/">> \o sanitizeDomainForFilename(domain) \o <<".png">>

(***************************************************************************)
(* Inputs.                                                                 *)
(***************************************************************************)
Procs == {1, 2}

\* raw queries: blank ones, bang-only ones, short and long ones
Queries ==
    { <<>>,
      <<" ", TAB>>,
      <<"!", "i">>,
      <<"!", "N", " ", "!", "d">>,
      <<"a">>,
      <<" ", "a", "b", "c", " ">>,
      <<"a", "b", "U+00E9">>,
      <<"a", "b", "U+1F600">>,
      <<"!", "i", " ", "a", "b">>,
      <<"!", "n", " ", "a", "b", "c", "d", " ", "!", "d">> }

\* argv of run(): no argument at all, or one raw query
Argvs == {<<>>} \cup {<<q>> : q \in Queries}

\* the searxng_url setting after getEnv
SearxngUrlSettings == {<<>>, <<"/", "/">>, <<"u", "/">>}
\* the secret_key setting after getEnv
SecretKeySettings == {<<>>, <<"k">>}
\* the timeout_ms setting after Number.parseInt (0: not a number)
TimeoutSettings == {0}

HostA == <<"a">>
HostB == <<"b">>
ResultA == JResult(Url("https", TRUE, HostA), <<"A">>)
ResultB == JResult(Url("http", FALSE, HostB), <<"B">>)

RECURSIVE Repeat(_, _)
Repeat(x, n) == IF n = 0 THEN <<>> ELSE <<x>> \o Repeat(x, n - 1)

\* the text of the i-th suggestion
Suggestion(i) == <<"s", ToString(i)>>

\* the suggestion lists of an autocomplete answer: s1 .. sn and sn .. s1
SuggestionLists ==
    {[i \in 1..n |-> Suggestion(i)] : n \in 0..MaxSuggestions}
    \cup {[i \in 1..n |-> Suggestion(n + 1 - i)] : n \in 0..MaxSuggestions}

Echo == JString(<<"q">>)

\* what the autocomplete request can produce
AutocompleteOutcomes ==
    {CurlThrew, CurlPrinted(EmptyBody), CurlPrinted(TextBody({})),
     CurlPrinted(JsonBody({}, JArray(<<Echo, JString(Suggestion(1))>>)))}
    \cup {CurlPrinted(JsonBody({}, JArray(<<Echo, JArray(sl)>>))) : sl \in SuggestionLists}
    \cup {CurlPrinted(JsonBody({}, JArray(<<Echo, JArray(<<Suggestion(1)>>), JNull>>)))}

\* the result lists of a search answer
ResultLists ==
    {Repeat(ResultA, n) : n \in {1, 2}}
    \cup {Repeat(ResultA, MaxResults - 1) \o <<ResultB>>}
    \cup {<<ResultA, ResultB>>, <<ResultB, ResultA, ResultB>>,
          <<JResult(Url("ftp", FALSE, HostA), <<"F">>)>>,
          <<ResultA, JNull>>,
          <<JResult(JUndefined, <<"T">>)>>}

\* what the full-search request can produce
SearchOutcomes ==
    {CurlThrew, CurlPrinted(EmptyBody), CurlPrinted(BlankBody),
     CurlPrinted(TextBody({"curl:"})), CurlPrinted(TextBody({"Could not resolve"})),
     CurlPrinted(TextBody({"<!DOCTYPE"})), CurlPrinted(TextBody({"<html"})),
     CurlPrinted(TextBody({"<html", "curl:"})),
     CurlPrinted(TextBody({})),
     CurlPrinted(JsonBody({}, JNull)),
     CurlPrinted(JsonBody({}, JNumber(5))),
     CurlPrinted(JsonBody({}, JArray(<<>>))),
     CurlPrinted(JsonBody({}, JResponse(JString(<<"e">>), JUndefined))),
     CurlPrinted(JsonBody({}, JResponse(JString(<<"e">>), JArray(<<ResultA>>)))),
     CurlPrinted(JsonBody({}, JResponse(JUndefined, JUndefined))),
     CurlPrinted(JsonBody({}, JResponse(JString(<<>>), JArray(<<>>)))),
     CurlPrinted(JsonBody({}, JResponse(JUndefined, JNull))),
     CurlPrinted(JsonBody({}, JResponse(JUndefined, JNumber(5)))),
     CurlPrinted(JsonBody({}, JResponse(JUndefined, JString(<<"x">>)))),
     CurlPrinted(JsonBody({"curl:"}, JResponse(JUndefined, JArray(<<ResultA>>)))),
     CurlPrinted(JsonBody({"Could not resolve"}, JResponse(JUndefined, JArray(<<>>)))),
     CurlPrinted(JsonBody({"<html"}, JResponse(JUndefined, JArray(<<ResultB>>))))}
    \cup {CurlPrinted(JsonBody({}, JResponse(JUndefined, JArray(rl)))) : rl \in ResultLists}

\* search.js:407-418, given what the openssl command produced: null when
\* doShellScript throws, else the trimmed text
computeHmac(openssl) ==
    IF openssl.threw THEN JNull ELSE JString(trim(openssl.text))

\* the URL of the favicon proxy, or the absence of one
NoFaviconUrl == [type |-> "none", base |-> <<>>, authority |-> <<>>, h |-> <<>>]
FaviconProxyUrl(base, domain, h) ==
    [type |-> "favicon_proxy", base |-> base, authority |-> domain, h |-> h]

\* search.js:427-433: !hmac holds for null and for the empty string
buildFaviconProxyUrl(base, domain, openssl) ==
    LET hmac == computeHmac(openssl)
    IN  IF hmac = JNull \/ hmac.s = <<>> THEN NoFaviconUrl
        ELSE FaviconProxyUrl(base, domain, hmac.s)

\* the position after the last "= " of s, or 0
LastLabelEnd(s) ==
    LET ends == {i \in 2..Len(s) : s[i - 1] = "=" /\ s[i] = " "}
    IN  IF ends = {} THEN 0 ELSE CHOOSE i \in ends : \A j \in ends : j <= i

\* normalizeHmacOutput(output): the text after the last "= ", trimmed;
\* null, undefined and blank text give the empty string
normalizeHmacOutput(output) ==
    IF output \in {JNull, JUndefined} THEN <<>>
    ELSE LET trimmed == trim(output.s)
         IN  trim(SubSeq(trimmed, LastLabelEnd(trimmed) + 1, Len(trimmed)))

\* the names of the cache files the results above can ask for
CacheFiles ==
    {FaviconPath(HostA), FaviconPath(HostB),
     FaviconPath(UrlText(Url("ftp", FALSE, HostA)))}

(***************************************************************************)
(* State.  Every variable but CONFIG and files is a function of the        *)
(* process: an osascript process that runs run(argv), one invocation after *)
(* the other.  pc is the place of the process in run(): "idle" before the  *)
(* first invocation; "autocomplete", "search", "favicon", "curl", "stat"   *)
(* and "cleanup" before the external call of that name; "done" when run()  *)
(* has returned JSON.stringify(response); "crashed" when an exception has  *)
(* left run().                                                             *)
(***************************************************************************)
VARIABLES
    active,                    \* the processes that run in this behaviour
    CONFIG,                    \* search.js:55-59
    files,                     \* the favicon cache directory: file name -> content
    pc,
    invocations,               \* number of invocations the process has started
    parsed,                    \* parseBangs(query.trim())
    suggestionItems,
    results,                   \* data.results of an ok response
    idx,                       \* the result that data.results.map is at
    resultItems,               \* the items map has produced so far
    faviconFetchesThisSearch,  \* search.js:311
    cachedFaviconDir,          \* search.js:316, TRUE once memoized
    requests,                  \* the autocomplete and search requests issued, in order
    faviconRequests,           \* number of favicon downloads started in this invocation
    cacheOps,                  \* the kinds of shell and file calls made for the favicon cache
    query,                     \* argv[0] || ""
    acOutcome,                 \* what the autocomplete request produced
    searchOutcome,             \* what the search request produced
    classification,            \* the class of the search response
    response,                  \* the object search() returned
    call                       \* the last direct call of a helper: function, input, output

vars == <<active, CONFIG, files, pc, invocations, parsed, suggestionItems, results, idx,
          resultItems, faviconFetchesThisSearch, cachedFaviconDir, requests,
          faviconRequests, cacheOps, query, acOutcome, searchOutcome, classification,
          response, call>>

NoCall == [fn |-> "none", done |-> FALSE]
NoParsed == [query |-> <<>>, category |-> Undefined, timeRange |-> Undefined]
NoOutcome == [threw |-> FALSE, body |-> [kind |-> "none", markers |-> {}, json |-> NoJson]]

searxngUrl == stripTrailingSlashes(CONFIG.searxngUrl)
timeoutSecs == CeilSeconds(CONFIG.timeoutMs)

Configs ==
    {[searxngUrl |-> u, timeoutMs |-> parseTimeout(t), secretKey |-> k] :
        u \in SearxngUrlSettings, t \in TimeoutSettings, k \in SecretKeySettings}

InitProcs ==
    /\ files = [f \in CacheFiles |-> "absent"]
    /\ pc = [p \in Procs |-> "idle"]
    /\ invocations = [p \in Procs |-> 0]
    /\ parsed = [p \in Procs |-> NoParsed]
    /\ suggestionItems = [p \in Procs |-> <<>>]
    /\ results = [p \in Procs |-> <<>>]
    /\ idx = [p \in Procs |-> 0]
    /\ resultItems = [p \in Procs |-> <<>>]
    /\ faviconFetchesThisSearch = [p \in Procs |-> 0]
    /\ cachedFaviconDir = [p \in Procs |-> FALSE]
    /\ requests = [p \in Procs |-> <<>>]
    /\ faviconRequests = [p \in Procs |-> 0]
    /\ cacheOps = [p \in Procs |-> {}]
    /\ query = [p \in Procs |-> <<>>]
    /\ acOutcome = [p \in Procs |-> NoOutcome]
    /\ searchOutcome = [p \in Procs |-> NoOutcome]
    /\ classification = [p \in Procs |-> "none"]
    /\ response = [p \in Procs |-> NoResponse]

\* one process, any configuration, an empty favicon cache
Init ==
    /\ active = {1}
    /\ CONFIG \in Configs
    /\ InitProcs
    /\ call = NoCall

\* search() returns r and run() returns its JSON text
Return(p, r) ==
    /\ response' = [response EXCEPT ![p] = r]
    /\ pc' = [pc EXCEPT ![p] = "done"]

\* an exception leaves search() and run(), which has no handler
Throw(p) ==
    /\ response' = [response EXCEPT ![p] = NoResponse]
    /\ pc' = [pc EXCEPT ![p] = "crashed"]

\* argv[0] || ""
QueryOf(argv) == IF argv = <<>> THEN <<>> ELSE argv[1]

\* the guards with the blank-query test ahead of the URL test
GuardFired_QueryFirst(url, q) ==
    IF q = <<>> \/ trim(q) = <<>> THEN "blank"
    ELSE IF url = <<>> THEN "config"
    ELSE IF parseBangs(trim(q)).query = <<>> THEN "bang-only"
    ELSE "none"

\* which of the three guards of search() fires, in the order of the code:
\* search.js:678, 690, 707
GuardFired(url, q) ==
    IF url = <<>> THEN "config"
    ELSE IF q = <<>> \/ trim(q) = <<>> THEN "blank"
    ELSE IF parseBangs(trim(q)).query = <<>> THEN "bang-only"
    ELSE "none"

\* the response of the guard that fires, search.js:677-717
GuardResponse(url, q) ==
    CASE GuardFired(url, q) = "config" ->
           Response(<<errorItem("SearXNG URL not configured",
                                <<"Set searxng_url in workflow settings">>, NoArg)>>, NoCache)
      [] GuardFired(url, q) = "blank" ->
           Response(<<placeholderItem(<<"Type a query to search">>)>>, NoCache)
      [] GuardFired(url, q) = "bang-only" ->
           LET pq == parseBangs(trim(q))
               filterInfo == formatFilterSubtitle(pq.category, pq.timeRange)
           IN  Response(<<placeholderItem(IF filterInfo # <<>> THEN filterInfo
                                          ELSE <<"Type a query to search">>)>>, NoCache)

\* run(argv) up to the autocomplete request: search.js:889-891, 668-719
Start(p, argv) ==
    /\ p \in active
    /\ pc[p] \in {"idle", "done"}
    /\ invocations[p] < MaxInvocations
    /\ invocations' = [invocations EXCEPT ![p] = @ + 1]
    /\ faviconFetchesThisSearch' = [faviconFetchesThisSearch EXCEPT ![p] = 0]
    /\ suggestionItems' = [suggestionItems EXCEPT ![p] = <<>>]
    /\ results' = [results EXCEPT ![p] = <<>>]
    /\ idx' = [idx EXCEPT ![p] = 0]
    /\ resultItems' = [resultItems EXCEPT ![p] = <<>>]
    /\ requests' = [requests EXCEPT ![p] = <<>>]
    /\ faviconRequests' = [faviconRequests EXCEPT ![p] = 0]
    /\ cacheOps' = [cacheOps EXCEPT ![p] = {}]
    /\ query' = [query EXCEPT ![p] = QueryOf(argv)]
    /\ acOutcome' = [acOutcome EXCEPT ![p] = NoOutcome]
    /\ searchOutcome' = [searchOutcome EXCEPT ![p] = NoOutcome]
    /\ classification' = [classification EXCEPT ![p] = "none"]
    /\ IF GuardFired(searxngUrl, QueryOf(argv)) # "none"
       THEN /\ Return(p, GuardResponse(searxngUrl, QueryOf(argv)))
            /\ parsed' = [parsed EXCEPT ![p] = NoParsed]
       ELSE /\ parsed' = [parsed EXCEPT ![p] = parseBangs(trim(QueryOf(argv)))]
            /\ pc' = [pc EXCEPT ![p] = "autocomplete"]
            /\ response' = [response EXCEPT ![p] = NoResponse]
    /\ UNCHANGED <<call, active, CONFIG, files, cachedFaviconDir>>

\* how the autocomplete request ended, told from the outcome alone
AutocompleteClass(outcome) ==
    IF outcome.threw THEN "failed"
    ELSE IF outcome.body.kind = "empty" THEN "empty-body"
    ELSE IF \/ outcome.body.kind # "json"
            \/ outcome.body.json.t # "array"
            \/ Len(outcome.body.json.elems) < 2
            \/ outcome.body.json.elems[2].t # "array"
    THEN "malformed"
    ELSE "answered"

HttpRequest(url, timeout) == [url |-> url, timeout |-> timeout]

\* a request that is sent a second time
Issue_Retry(log, request) == log \o <<request, request>>

\* httpGet runs its curl command once, search.js:283-301: one request
\* joins the requests sent so far
Issue(log, request) == Append(log, request)

\* a short response that always ends with the fallback item
ShortResponse_AlwaysFallback(items, cleanQuery, url, category, timeRange) ==
    Response(items \o <<fallbackItem(cleanQuery, url, category, timeRange)>>,
             Cache(SHORT_CACHE_SECONDS))

\* the response of a short query, search.js:728-741
ShortResponse(items, cleanQuery, url, category, timeRange) ==
    Response(IF items = <<>> THEN <<fallbackItem(cleanQuery, url, category, timeRange)>>
             ELSE items,
             Cache(SHORT_CACHE_SECONDS))

\* the autocomplete request and what follows it up to the search request:
\* search.js:721-741
Autocomplete(p, outcome) ==
    /\ p \in active
    /\ pc[p] = "autocomplete"
    /\ requests' = [requests EXCEPT ![p] =
           Issue(@, HttpRequest(AutocompleteUrl(searxngUrl, parsed[p].query),
                                AutocompleteTimeout(timeoutSecs)))]
    /\ acOutcome' = [acOutcome EXCEPT ![p] = outcome]
    /\ LET items == MapSuggestions(fetchAutocomplete(outcome),
                                   parsed[p].category, parsed[p].timeRange)
       IN  /\ suggestionItems' = [suggestionItems EXCEPT ![p] = items]
           /\ IF ~shouldShowFullResults(parsed[p].query)
              THEN Return(p, ShortResponse(items, parsed[p].query, searxngUrl,
                                           parsed[p].category, parsed[p].timeRange))
              ELSE /\ pc' = [pc EXCEPT ![p] = "search"]
                   /\ UNCHANGED response
    /\ UNCHANGED <<call, active, CONFIG, files, invocations, parsed, results, idx, resultItems,
                   faviconFetchesThisSearch, cachedFaviconDir, faviconRequests, cacheOps,
                   query, searchOutcome, classification>>

\* the HTML test that knows the doctype only
LooksLikeHtml_DoctypeOnly(data) == includes(data, "<!DOCTYPE")

\* search.js:790
LooksLikeHtml(data) == includes(data, "<!DOCTYPE") \/ includes(data, "<html")

\* the chain of guards on the search response, search.js:756-825, in the
\* order of the code; "type-error" is the TypeError of data.error on null
Classify(outcome) ==
    LET r == httpGet(outcome)
    IN  IF ~r.success THEN "network-error"
        ELSE IF r.data.kind \in {"empty", "blank"} THEN "empty-response"
        ELSE IF r.data.kind # "json"
        THEN IF LooksLikeHtml(r.data) THEN "html-not-json" ELSE "invalid-response"
        ELSE IF PropertyReadThrows(r.data.json) THEN "type-error"
        ELSE IF Truthy(GetError(r.data.json)) THEN "api-error"
        ELSE IF \/ ~Truthy(GetResults(r.data.json))
                \/ LengthIsZero(GetResults(r.data.json))
        THEN "no-results"
        ELSE "ok"

\* the text Alfred shows for data.error
ErrorText(v) == IF v.t = "string" THEN v.s ELSE <<"[object]">>

\* a failed search without its fallback item
ErrorWithFallback_NoFallback(error, fallback) == <<error>>

\* the two items of a failed search: search.js:759-766, 773-780, 792-799,
\* 803-810, 817-820
ErrorWithFallback(error, fallback) == <<error, fallback>>

\* a response without results that forgets the suggestions
NoResultsResponse_Bare(suggestions, noResults) == Response(<<noResults>>, NoCache)

\* the items of a response without results, search.js:831-856
NoResultsResponse(suggestions, noResults) ==
    IF suggestions # <<>>
    THEN Response(suggestions \o <<separatorItem("No Results"), noResults>>,
                  Cache(LONG_CACHE_SECONDS))
    ELSE Response(<<noResults>>, NoCache)

\* the error item of each class, search.js:760-764, 774-778, 793-797,
\* 804-808, 818, 836-840
ClassErrorItem(class, data, pq, url) ==
    CASE class = "network-error" ->
           errorItem("Cannot reach SearXNG", <<"Check your connection">>, BackendUrl(url))
      [] class = "empty-response" ->
           errorItem("Empty response", <<"SearXNG returned no data">>,
                     SearchUrl(url, pq.query, FALSE, Undefined, Undefined))
      [] class = "html-not-json" ->
           errorItem("JSON API not enabled", <<"Enable json format in SearXNG settings.yml">>,
                     DocsUrl)
      [] class = "invalid-response" ->
           errorItem("Invalid response", <<"Check if JSON format is enabled">>,
                     BackendUrl(url))
      [] class = "api-error" ->
           errorItem("API Error", ErrorText(GetError(data)), BackendUrl(url))
      [] class = "no-results" ->
           errorItem("No results found",
                     <<"Try different keywords">>
                       \o formatFilterSubtitle(pq.category, pq.timeRange),
                     SearchUrl(url, pq.query, FALSE, Undefined, Undefined))

\* a failure that the launcher is told to cache
FailureResponse_Cached(class, data, pq, suggestions, url) ==
    Response(ErrorWithFallback(ClassErrorItem(class, data, pq, url),
                               fallbackItem(pq.query, url, pq.category, pq.timeRange)),
             Cache(LONG_CACHE_SECONDS))

\* the object search() returns for a response that is not ok, search.js:756-857
FailureResponse(class, data, pq, suggestions, url) ==
    IF class = "no-results"
    THEN NoResultsResponse(suggestions, ClassErrorItem(class, data, pq, url))
    ELSE Response(ErrorWithFallback(ClassErrorItem(class, data, pq, url),
                                    fallbackItem(pq.query, url, pq.category, pq.timeRange)),
                  NoCache)

\* a request URL that leaves the filters out
FullSearchUrl_NoFilters(url, pq) == SearchUrl(url, pq.query, TRUE, Undefined, Undefined)

\* the URL of the search request, search.js:745-751
FullSearchUrl(url, pq) == SearchUrl(url, pq.query, TRUE, pq.category, pq.timeRange)

\* the search request and the classification of its response:
\* search.js:743-860
FullSearch(p, outcome) ==
    /\ p \in active
    /\ pc[p] = "search"
    /\ requests' = [requests EXCEPT ![p] =
           Issue(@, HttpRequest(FullSearchUrl(searxngUrl, parsed[p]), timeoutSecs))]
    /\ searchOutcome' = [searchOutcome EXCEPT ![p] = outcome]
    /\ classification' = [classification EXCEPT ![p] = Classify(outcome)]
    /\ LET class == Classify(outcome)
           data == httpGet(outcome).data.json
       IN  CASE class = "type-error" ->
                  /\ Throw(p)
                  /\ UNCHANGED <<results, idx>>
             [] class = "ok" ->
                  IF HasMap(GetResults(data))
                  THEN /\ results' = [results EXCEPT ![p] = GetResults(data).elems]
                       /\ idx' = [idx EXCEPT ![p] = 1]
                       /\ pc' = [pc EXCEPT ![p] = "favicon"]
                       /\ UNCHANGED response
                  ELSE /\ Throw(p)
                       /\ UNCHANGED <<results, idx>>
             [] OTHER ->
                  /\ Return(p, FailureResponse(class, data, parsed[p], suggestionItems[p],
                                               searxngUrl))
                  /\ UNCHANGED <<results, idx>>
    /\ UNCHANGED <<call, active, CONFIG, files, invocations, parsed, suggestionItems, resultItems,
                   faviconFetchesThisSearch, cachedFaviconDir, faviconRequests, cacheOps,
                   query, acOutcome>>

(***************************************************************************)
(* data.results.map(resultToAlfredItem) and the favicon resolver.          *)
(***************************************************************************)
\* what the shell calls of the favicon resolver can produce
DirOutcomes == {"ok", "throws"}            \* getCacheDir: getenv, HOME, mkdir -p
HmacOutcomes == {"hex", "blank", "throws"} \* openssl dgst
\* curl --output: exit status 0 with a file that has content, with an empty
\* file or with no file written; a non-zero status with or without a
\* partial file
CurlFileOutcomes == {"saved", "saved-empty", "no-file", "failed-partial", "failed"}

\* a size check that finds every file empty
HasContent_Never(path) == FALSE

\* Number.parseInt(stat -f%z path || echo 0, 10) > 0
HasContent(path) == files[path] \in {"partial", "complete"}

\* a cache lookup that never finds the file
fileExists_Never(path) == FALSE

\* search.js:371-373 on the cache file: a file of any content exists
fileExists(path) == files[path] # "absent"

\* favicons resolved whatever the secret key
FaviconsEnabled_Always(secretKey) == TRUE

\* search.js:492, the negation of !secretKey
FaviconsEnabled(secretKey) == secretKey # <<>>

\* a cleanup that leaves the file in place
rm_Nothing(fs, path) == fs

\* rm -f path, search.js:469 and 474
rm(fs, path) == [fs EXCEPT ![path] = "absent"]

\* the budget test off by one
BudgetExhausted_OffByOne(fetches) == fetches > MAX_FAVICON_FETCHES_PER_SEARCH

\* search.js:503
BudgetExhausted(fetches) == fetches >= MAX_FAVICON_FETCHES_PER_SEARCH

\* search.js:615-657, given the icon getFaviconPath returned
resultToAlfredItem(result, pq, url, iconPath) ==
    [kind |-> "result",
     title |-> result.title,
     \* Array.prototype.join prints nothing for the undefined domain of a
     \* result without url
     subtitle |-> (IF PropertyReadThrows(result.url) THEN <<>>
                   ELSE extractDomain(result.url))
                    \o formatFilterSubtitle(pq.category, pq.timeRange),
     valid |-> TRUE,
     arg |-> [type |-> "result", url |-> result.url],
     \* mods.alt.arg: the query in the web interface
     alt |-> SearchUrl(url, pq.query, FALSE, pq.category, pq.timeRange),
     icon |-> iconPath]

\* an ok response with the fallback item ahead of the results
OkResponse_FallbackFirst(suggestions, items, pq, url) ==
    Response((IF suggestions # <<>> THEN suggestions \o <<separatorItem("Results")>>
              ELSE <<>>)
               \o <<fallbackItem(pq.query, url, pq.category, pq.timeRange)>>
               \o items,
             Cache(LONG_CACHE_SECONDS))

\* the items of an ok response, search.js:864-881
OkResponse(suggestions, items, pq, url) ==
    Response((IF suggestions # <<>> THEN suggestions \o <<separatorItem("Results")>>
              ELSE <<>>)
               \o items
               \o <<fallbackItem(pq.query, url, pq.category, pq.timeRange)>>,
             Cache(LONG_CACHE_SECONDS))

\* the result the process is at
CurrentResult(p) == results[p][idx[p]]
CurrentPath(p) == FaviconPath(extractDomain(CurrentResult(p).url))

\* getFaviconPath has returned iconPath: the item of the current result is
\* built, and map goes on to the next result or search() returns
FinishResult(p, iconPath) ==
    LET items == Append(resultItems[p],
                        resultToAlfredItem(CurrentResult(p), parsed[p], searxngUrl, iconPath))
    IN  /\ resultItems' = [resultItems EXCEPT ![p] = items]
        /\ IF idx[p] < Len(results[p])
           THEN /\ idx' = [idx EXCEPT ![p] = @ + 1]
                /\ pc' = [pc EXCEPT ![p] = "favicon"]
                /\ UNCHANGED response
           ELSE /\ Return(p, OkResponse(suggestionItems[p], items, parsed[p], searxngUrl))
                /\ UNCHANGED idx

\* an exception inside the map callback
ThrowInMap(p) ==
    /\ Throw(p)
    /\ UNCHANGED <<idx, resultItems>>

\* resultToAlfredItem up to the download: search.js:615-637, getFaviconPath
\* 490-507, getCachedFavicon 390-398, getCacheDir 354-364 and, in
\* fetchFavicon, buildFaviconProxyUrl 427-433 with computeHmac 407-418
FaviconLookup(p, dirOutcome, hmacOutcome) ==
    /\ p \in active
    /\ pc[p] = "favicon"
    /\ LET result == CurrentResult(p)
           resolve == FaviconsEnabled(CONFIG.secretKey) /\ ~PropertyReadThrows(result)
           mkdir == resolve /\ ~cachedFaviconDir[p]
           dirOk == resolve /\ (cachedFaviconDir[p] \/ dirOutcome = "ok")
           lookup == dirOk /\ ~PropertyReadThrows(result.url)
           hit == lookup /\ fileExists(CurrentPath(p))
           fetch == lookup /\ ~hit /\ ~BudgetExhausted(faviconFetchesThisSearch[p])
       IN  /\ cachedFaviconDir' = [cachedFaviconDir EXCEPT ![p] = @ \/ dirOk]
           /\ cacheOps' = [cacheOps EXCEPT ![p] =
                  @ \cup (IF mkdir THEN {"mkdir"} ELSE {})
                    \cup (IF lookup THEN {"fileExists"} ELSE {})
                    \cup (IF fetch THEN {"openssl"} ELSE {})]
           /\ faviconFetchesThisSearch' = [faviconFetchesThisSearch EXCEPT ![p] =
                  IF fetch THEN @ + 1 ELSE @]
           /\ CASE PropertyReadThrows(result) -> ThrowInMap(p)        \* result.url of null
                [] ~resolve -> FinishResult(p, GenericIcon)          \* no secret key
                [] ~dirOk -> ThrowInMap(p)                           \* getCacheDir throws
                [] ~lookup -> ThrowInMap(p)                          \* undefined.replace
                [] hit -> FinishResult(p, CurrentPath(p))
                [] ~fetch -> FinishResult(p, GenericIcon)            \* budget exhausted
                [] hmacOutcome # "hex" -> FinishResult(p, GenericIcon)
                [] OTHER -> /\ pc' = [pc EXCEPT ![p] = "curl"]
                            /\ UNCHANGED <<idx, resultItems, response>>
    /\ UNCHANGED <<call, active, CONFIG, files, invocations, parsed, suggestionItems, results,
                   requests, faviconRequests, query, acOutcome, searchOutcome, classification>>

\* the download of fetchFavicon, search.js:453-460 and the catch at 471
FaviconCurl(p, outcome) ==
    /\ p \in active
    /\ pc[p] = "curl"
    /\ faviconRequests' = [faviconRequests EXCEPT ![p] = @ + 1]
    /\ cacheOps' = [cacheOps EXCEPT ![p] = @ \cup {"curl"}]
    /\ files' = [files EXCEPT ![CurrentPath(p)] =
           CASE outcome = "saved" -> "complete"
             [] outcome = "saved-empty" -> "empty"
             [] outcome = "failed-partial" -> "partial"
             [] OTHER -> @]
    /\ pc' = [pc EXCEPT ![p] =
           IF outcome \in {"failed-partial", "failed"} THEN "cleanup" ELSE "stat"]
    /\ UNCHANGED <<call, active, CONFIG, invocations, parsed, suggestionItems, results, idx,
                   resultItems, faviconFetchesThisSearch, cachedFaviconDir, requests,
                   query, acOutcome, searchOutcome, classification, response>>

\* the size check of fetchFavicon, search.js:462-466
FaviconStat(p) ==
    /\ p \in active
    /\ pc[p] = "stat"
    /\ cacheOps' = [cacheOps EXCEPT ![p] = @ \cup {"stat"}]
    /\ IF HasContent(CurrentPath(p))
       THEN FinishResult(p, CurrentPath(p))
       ELSE /\ pc' = [pc EXCEPT ![p] = "cleanup"]
            /\ UNCHANGED <<idx, resultItems, response>>
    /\ UNCHANGED <<call, active, CONFIG, files, invocations, parsed, suggestionItems, results,
                   faviconFetchesThisSearch, cachedFaviconDir, requests, faviconRequests,
                   query, acOutcome, searchOutcome, classification>>

\* rm -f of fetchFavicon, search.js:468-479, and the fallback of
\* getFaviconPath, 511-516
FaviconCleanup(p) ==
    /\ p \in active
    /\ pc[p] = "cleanup"
    /\ cacheOps' = [cacheOps EXCEPT ![p] = @ \cup {"rm"}]
    /\ files' = rm(files, CurrentPath(p))
    /\ FinishResult(p, GenericIcon)
    /\ UNCHANGED <<call, active, CONFIG, invocations, parsed, suggestionItems, results,
                   faviconFetchesThisSearch, cachedFaviconDir, requests, faviconRequests,
                   query, acOutcome, searchOutcome, classification>>

Next ==
    \E p \in Procs :
        \/ \E argv \in Argvs : Start(p, argv)
        \/ \E outcome \in AutocompleteOutcomes : Autocomplete(p, outcome)
        \/ \E outcome \in SearchOutcomes : FullSearch(p, outcome)
        \/ \E d \in DirOutcomes : \E h \in HmacOutcomes : FaviconLookup(p, d, h)
        \/ \E outcome \in CurlFileOutcomes : FaviconCurl(p, outcome)
        \/ FaviconStat(p)
        \/ FaviconCleanup(p)

Spec == Init /\ [][Next]_vars

(***************************************************************************)
(* Two osascript processes that share the favicon cache directory: Alfred  *)
(* starts a new process for every keystroke and does not wait for the      *)
(* previous one.  Each process has its own faviconFetchesThisSearch and    *)
(* cachedFaviconDir (search.js:311, 316 are module variables of the        *)
(* process); the files are common.  The processes search with favicons     *)
(* enabled and get answers that name the same domains.                     *)
(***************************************************************************)
ConcurrentConfig ==
    [searxngUrl |-> <<"u", "/">>, timeoutMs |-> parseTimeout(0), secretKey |-> <<"k">>]

ConcurrentArgv == << <<"!", "n", " ", "a", "b", "c", "d", " ", "!", "d">> >>

ConcurrentSearchOutcomes ==
    {CurlPrinted(JsonBody({}, JResponse(JUndefined, JArray(rl)))) :
        rl \in {<<ResultA>>, <<ResultA, ResultB>>}}

InitConcurrent ==
    /\ active = Procs
    /\ CONFIG = ConcurrentConfig
    /\ InitProcs
    /\ call = NoCall

NextConcurrent ==
    \E p \in Procs :
        \/ Start(p, ConcurrentArgv)
        \/ Autocomplete(p, CurlThrew)
        \/ \E outcome \in ConcurrentSearchOutcomes : FullSearch(p, outcome)
        \/ \E h \in HmacOutcomes : FaviconLookup(p, "ok", h)
        \/ \E outcome \in CurlFileOutcomes : FaviconCurl(p, outcome)
        \/ FaviconStat(p)
        \/ FaviconCleanup(p)

SpecConcurrent == InitConcurrent /\ [][NextConcurrent]_vars

(***************************************************************************)
(* The helpers called directly, as the unit tests call them: the initial   *)
(* state holds one call on an input drawn from a bounded set and the step  *)
(* makes the call.  No process runs.                                       *)
(***************************************************************************)
\* the item lists handed to buildResponse
ItemLists ==
    {<<>>,
     <<errorItem("No results found", <<"Try different keywords">>, NoArg)>>,
     <<placeholderItem(<<"Type a query to search">>)>>,
     <<suggestionToAlfredItem(Suggestion(1), Undefined, Undefined), separatorItem("Results")>>,
     <<suggestionToAlfredItem(Suggestion(2), "images", "day"),
       suggestionToAlfredItem(Suggestion(1), "images", "day"),
       fallbackItem(<<"a">>, <<"u">>, "images", "day")>>,
     <<fallbackItem(<<"a">>, <<"u">>, Undefined, Undefined)>>}

\* the cacheSeconds arguments: absent, null and numbers around 0
CacheSecondsArgs ==
    {JUndefined, JNull}
    \cup {JNumber(n) : n \in {-30, -1, 0, 1, SHORT_CACHE_SECONDS, LONG_CACHE_SECONDS, 120}}

\* the tokens of the queries handed to parseBangs: recognized bangs in both
\* cases, the unknown bang !w, a bang at the start and at the end of a longer
\* token, and a plain word
QueryTokens ==
    {<<"!", "i">>,
     <<"!", "I">>,
     <<"!", "I", "m", "a", "g", "e", "s">>,
     <<"!", "n">>,
     <<"!", "d">>,
     <<"!", "M">>,
     <<"!", "w">>,
     <<"!", "i", "x">>,
     <<"x", "!", "i">>,
     <<"a", "b">>}

\* the token lists of at most n tokens
RECURSIVE TokenLists(_)
TokenLists(n) ==
    IF n = 0 THEN {<<>>}
    ELSE TokenLists(n - 1)
         \cup {Append(ts, t) : ts \in {l \in TokenLists(n - 1) : Len(l) = n - 1},
                               t \in QueryTokens}

\* tokens.join(sep)
RECURSIVE Join(_, _)
Join(tokens, sep) ==
    IF tokens = <<>> THEN <<>>
    ELSE IF Len(tokens) = 1 THEN tokens[1]
    ELSE tokens[1] \o sep \o Join(Tail(tokens), sep)

\* the white space between two tokens
Separators == {<<" ">>, <<TAB>>, <<" ", " ">>, <<" ", " ", " ">>, <<" ", TAB, " ", " ">>}

\* the queries handed to parseBangs: the tokens joined by one separator,
\* and the single-spaced ones also with white space around them
BangQueries ==
    {Join(ts, sep) : ts \in TokenLists(MaxTokens), sep \in Separators}
    \cup {<<" ">> \o Join(ts, <<" ">>) \o <<" ", " ">> : ts \in TokenLists(MaxTokens)}

\* the responseData arguments of parseAutocompleteResponse
AutocompleteData ==
    {NullData, EmptyBody, BlankBody, TextBody({}), TextBody({"<html"})}
    \cup {JsonBody({}, v) :
            v \in {JNull, JNumber(5), JString(Suggestion(1)),
                   JResponse(JUndefined, JArray(<<>>)),
                   JArray(<<>>), JArray(<<Echo>>), JArray(<<JArray(<<Suggestion(1)>>)>>),
                   JArray(<<Echo, JString(Suggestion(1))>>),
                   JArray(<<Echo, JNull>>), JArray(<<Echo, JNumber(5)>>),
                   JArray(<<Echo, JResponse(JUndefined, JArray(<<>>))>>),
                   JArray(<<JArray(<<Suggestion(1)>>), Echo>>),
                   JArray(<<Echo, Echo, JArray(<<Suggestion(1)>>)>>)}}
    \cup {JsonBody({}, JArray(<<Echo, JArray(sl)>>)) : sl \in SuggestionLists}
    \cup {JsonBody({}, JArray(<<Echo, JArray(sl), JNull>>)) : sl \in SuggestionLists}
    \cup {JsonBody({}, JArray(<<Echo, JArray(sl), JArray(<<>>), JArray(<<>>)>>)) :
            sl \in SuggestionLists}

\* the strings of at most n characters over an alphabet
RECURSIVE Strings(_, _)
Strings(alphabet, n) ==
    IF n = 0 THEN {<<>>}
    ELSE Strings(alphabet, n - 1)
         \cup {Append(str, c) : str \in {x \in Strings(alphabet, n - 1) : Len(x) = n - 1},
                                c \in alphabet}

\* the characters of the strings handed to shellEscape: the ones the shell
\* gives a meaning to, and a letter
ShellChars == {"a", QUOTE, DQUOTE, "$", BACKQUOTE, "-", BACKSLASH, " ", ";"}

\* what openssl dgst prints: hex digits (a), label characters (L), the
\* equals sign and white space
HmacChars == {"a", "L", "=", " "}

\* the characters of a timeout_ms setting
TimeoutChars == {"0", "1", "2", "3", "9", "-", "+", " ", ".", "x"}

\* timeout_ms settings: unset, short texts, and short texts followed by
\* three digits that make thousands and thousands plus one
TimeoutEnvs ==
    {Unset}
    \cup {EnvText(head \o tail) : head \in Strings(TimeoutChars, MaxStrLen),
                          tail \in {<<>>, <<"0", "0", "0">>, <<"0", "0", "1">>}}

\* doShellScript of the openssl command: it throws, or returns the text
OpensslOutcomes ==
    {[threw |-> TRUE, text |-> <<>>]}
    \cup {[threw |-> FALSE, text |-> t] : t \in Strings(HmacChars, MaxStrLen + 1)}

\* a call that has not been made yet
Call(fn, input) == [fn |-> fn, done |-> FALSE, input |-> input, output |-> NoJson]

\* the call returns output
Called(fn, output) ==
    /\ call.fn = fn
    /\ ~call.done
    /\ call' = [call EXCEPT !.done = TRUE, !.output = output]
    /\ UNCHANGED <<active, CONFIG, files, pc, invocations, parsed, suggestionItems, results,
                   idx, resultItems, faviconFetchesThisSearch, cachedFaviconDir, requests,
                   faviconRequests, cacheOps, query, acOutcome, searchOutcome,
                   classification, response>>

BuildResponseCall ==
    Called("buildResponse",
           buildResponse(call.input.items, call.input.cacheSeconds,
                         call.input.enableResultCache))

ParseBangsCall == Called("parseBangs", parseBangs(call.input.query))

ShellEscapeCall == Called("shellEscape", shellEscape(call.input.str))

BuildFaviconProxyUrlCall ==
    Called("buildFaviconProxyUrl",
           buildFaviconProxyUrl(call.input.searxngUrl, call.input.domain, call.input.openssl))

ParseAutocompleteResponseCall ==
    Called("parseAutocompleteResponse", parseAutocompleteResponse(call.input.responseData))

\* the timeouts of the two requests under a timeout_ms setting:
\* search.js:57, 719, 722 with 268, and 754
TimeoutsCall ==
    LET timeoutMs == ConfigTimeoutMs(call.input.timeout_ms)
    IN  Called("timeouts",
               [timeoutMs |-> timeoutMs,
                autocomplete |-> AutocompleteTimeout(CeilSeconds(timeoutMs)),
                search |-> CeilSeconds(timeoutMs)])

Calls ==
    {Call("buildResponse",
          [items |-> items, cacheSeconds |-> cacheSeconds,
           enableResultCache |-> enableResultCache]) :
        items \in ItemLists, cacheSeconds \in CacheSecondsArgs,
        enableResultCache \in BOOLEAN}
    \cup {Call("parseBangs", [query |-> q]) : q \in BangQueries}
    \cup {Call("parseAutocompleteResponse", [responseData |-> d]) : d \in AutocompleteData}
    \cup {Call("shellEscape", [str |-> str]) : str \in Strings(ShellChars, MaxStrLen)}
    \cup {Call("buildFaviconProxyUrl", [searxngUrl |-> <<"u">>, domain |-> HostA, openssl |-> o]) :
            o \in OpensslOutcomes}
    \cup {Call("timeouts", [timeout_ms |-> env]) : env \in TimeoutEnvs}

InitFunctions ==
    /\ active = {}
    /\ CONFIG = ConcurrentConfig
    /\ InitProcs
    /\ call \in Calls

NextFunctions ==
    \/ BuildResponseCall
    \/ ParseBangsCall
    \/ ParseAutocompleteResponseCall
    \/ ShellEscapeCall
    \/ BuildFaviconProxyUrlCall
    \/ TimeoutsCall

SpecFunctions == InitFunctions /\ [][NextFunctions]_vars

(***************************************************************************)
(* Properties.                                                             *)
(***************************************************************************)
Finished(p) == pc[p] = "done"
Items(p) == response[p].items
Kinds(p) == {Items(p)[i].kind : i \in 1..Len(Items(p))}

\* C1: every invocation of run(argv) ends by returning a JSON item list; no
\* exception leaves the invocation, whatever the collaborators produce (a
\* thrown value would have to become one "Internal Error" item).
C1_NoExceptionEscapes == \A p \in Procs : pc[p] # "crashed"

\* C2: at every moment of an invocation the number of favicon downloads
\* started is at most faviconFetchesThisSearch, which is at most
\* MAX_FAVICON_FETCHES_PER_SEARCH; the counter is 0 when an invocation
\* starts, whatever earlier invocations of the process did, and within an
\* invocation it only changes by growing by 1, at the start of a fetch
\* attempt.
C2_FaviconBudget ==
    /\ [](\A p \in Procs :
            /\ faviconRequests[p] <= faviconFetchesThisSearch[p]
            /\ faviconFetchesThisSearch[p] <= MAX_FAVICON_FETCHES_PER_SEARCH)
    /\ [][\A p \in Procs :
            /\ invocations'[p] # invocations[p] => faviconFetchesThisSearch'[p] = 0
            /\ (invocations'[p] = invocations[p]
                  /\ faviconFetchesThisSearch'[p] # faviconFetchesThisSearch[p])
               => /\ faviconFetchesThisSearch'[p] = faviconFetchesThisSearch[p] + 1
                  /\ pc[p] = "favicon"
                  /\ faviconRequests'[p] = faviconRequests[p]]_vars

\* a second invocation of a process has used up its budget, has downloaded
\* and has resolved a result beyond the budget
C2_Witness ==
    \E p \in Procs :
        /\ invocations[p] = 2
        /\ faviconFetchesThisSearch[p] = MAX_FAVICON_FETCHES_PER_SEARCH
        /\ faviconRequests[p] > 0
        /\ Len(resultItems[p]) > MAX_FAVICON_FETCHES_PER_SEARCH

FailureClasses ==
    {"network-error", "empty-response", "html-not-json", "invalid-response", "api-error",
     "no-results"}

ClassTitle(class) ==
    CASE class = "network-error" -> <<"Cannot reach SearXNG">>
      [] class = "empty-response" -> <<"Empty response">>
      [] class = "html-not-json" -> <<"JSON API not enabled">>
      [] class = "invalid-response" -> <<"Invalid response">>
      [] class = "api-error" -> <<"API Error">>
      [] class = "no-results" -> <<"No results found">>

\* items i and i + 1 are the error item of the class and a fallback item
ErrorThenFallbackAt(p, i) ==
    /\ Items(p)[i].kind = "error"
    /\ Items(p)[i].title = ClassTitle(classification[p])
    /\ Items(p)[i + 1].kind = "fallback"

\* C3 as stated: for every class other than ok, search returns the error
\* item of the class followed by a fallback item, and no result item.
C3_Original ==
    \A p \in Procs :
        (Finished(p) /\ classification[p] \in FailureClasses)
        => /\ \E i \in 1..(Len(Items(p)) - 1) : ErrorThenFallbackAt(p, i)
           /\ "result" \notin Kinds(p)

\* C3 as amended: for network-error, empty-response, html-not-json,
\* invalid-response and api-error search returns exactly the error item of
\* the class followed by a fallback item; for no-results it returns the "No
\* results found" item as the last item and no fallback item; in every one
\* of these classes the list holds no result item.
C3_FailureItems ==
    \A p \in Procs :
        (Finished(p) /\ classification[p] \in FailureClasses)
        => /\ "result" \notin Kinds(p)
           /\ classification[p] # "no-results"
              => /\ Len(Items(p)) = 2
                 /\ ErrorThenFallbackAt(p, 1)
           /\ classification[p] = "no-results"
              => /\ Items(p)[Len(Items(p))].kind = "error"
                 /\ Items(p)[Len(Items(p))].title = ClassTitle("no-results")
                 /\ "fallback" \notin Kinds(p)

\* an api-error response that carried results has been answered
C3_Witness ==
    \E p \in Procs :
        /\ Finished(p)
        /\ classification[p] = "api-error"
        /\ GetResults(searchOutcome[p].body.json).t = "array"
        /\ GetResults(searchOutcome[p].body.json).elems # <<>>

\* C4: each of the three guards gives a response of exactly one item with
\* valid = false and no cache directive, without any HTTP request, favicon
\* lookup or file operation: the configuration error when the backend URL
\* is empty after stripping trailing slashes; otherwise the "Type a query
\* to search" placeholder for a blank raw query; otherwise, for a query that
\* is blank once its bangs are removed, a placeholder whose subtitle is the
\* summary of the active filters.  The URL guard comes first.
C4_Guards ==
    \A p \in Procs :
        LET url == stripTrailingSlashes(CONFIG.searxngUrl)
            blankRaw == trim(query[p]) = <<>>
            pq == parseBangs(trim(query[p]))
            guarded == url = <<>> \/ blankRaw \/ pq.query = <<>>
        IN  (Finished(p) /\ guarded)
            => /\ Len(Items(p)) = 1
               /\ Items(p)[1].valid = FALSE
               /\ ~response[p].cache.present
               /\ requests[p] = <<>>
               /\ faviconRequests[p] = 0
               /\ cacheOps[p] = {}
               /\ url = <<>> => Items(p)[1].title = <<"SearXNG URL not configured">>
               /\ (url # <<>> /\ blankRaw)
                  => /\ Items(p)[1].title = <<"Search SearXNG...">>
                     /\ Items(p)[1].subtitle = <<"Type a query to search">>
               /\ (url # <<>> /\ ~blankRaw)
                  => /\ Items(p)[1].title = <<"Search SearXNG...">>
                     /\ Items(p)[1].subtitle # <<>>
                     /\ Items(p)[1].subtitle
                          = (IF pq.category # Undefined THEN <<Capitalize(pq.category)>>
                             ELSE <<>>)
                            \o (IF pq.timeRange # Undefined THEN <<TimeLabel(pq.timeRange)>>
                                ELSE <<>>)

\* an invocation with an empty backend URL and a blank query has ended
C4_Witness ==
    \E p \in Procs :
        /\ Finished(p)
        /\ CONFIG.searxngUrl = <<"/", "/">>
        /\ query[p] = <<" ", TAB>>

\* an invocation with a query of bangs only has ended
C4_WitnessBangOnly ==
    \E p \in Procs :
        /\ Finished(p)
        /\ CONFIG.searxngUrl = <<"u", "/">>
        /\ query[p] = <<"!", "N", " ", "!", "d">>
        /\ Items(p)[1].subtitle = <<"News", "Past day">>

\* the full-search request has been issued, or is the next thing the process does
FullSearchIssued(p) == pc[p] = "search" \/ Len(requests[p]) = 2

\* C5: a full-search request is issued if and only if the guards pass and
\* the cleaned query, trimmed, has more than 3 characters, characters being
\* counted and not bytes.
C5_FullSearchIffFourCharacters ==
    \A p \in Procs :
        requests[p] # <<>>
        => (FullSearchIssued(p) <=> charCount(trim(parsed[p].query)) > 3)

\* the suggestion list the autocomplete endpoint answered, if it answered
SuggestionsReturned(outcome) ==
    IF AutocompleteClass(outcome) = "answered" THEN outcome.body.json.elems[2].elems ELSE <<>>

\* items 1..Len(list) are the suggestion items of list, in its order
SuggestionsLead(p, list) ==
    /\ Len(Items(p)) >= Len(list)
    /\ \A i \in 1..Len(list) :
          /\ Items(p)[i].kind = "suggestion"
          /\ Items(p)[i].title = list[i]
          /\ Items(p)[i].arg = TextArg(list[i])

JsonWithoutResults(outcome) ==
    /\ ~outcome.threw
    /\ outcome.body.kind = "json"
    /\ GetError(outcome.body.json) = JUndefined
    /\ GetResults(outcome.body.json) \in {JUndefined, JArray(<<>>)}

\* the items are the suggestions, a "No Results" separator and the "No
\* results found" item, or that item alone when there is no suggestion
NoResultsItems(p) ==
    LET list == SuggestionsReturned(acOutcome[p])
        n == Len(list)
    IN  /\ Items(p)[Len(Items(p))].kind = "error"
        /\ Items(p)[Len(Items(p))].title = <<"No results found">>
        /\ list = <<>> => Len(Items(p)) = 1
        /\ list # <<>>
           => /\ Len(Items(p)) = n + 2
              /\ SuggestionsLead(p, list)
              /\ Items(p)[n + 1].kind = "separator"
              /\ Items(p)[n + 1].title = <<"No Results">>
              /\ Items(p)[n + 1].valid = FALSE

C9_HtmlBody ==
    \A p \in Procs :
        (/\ Finished(p)
         /\ Len(requests[p]) = 2
         /\ ~searchOutcome[p].threw
         /\ searchOutcome[p].body.kind = "text"
         /\ searchOutcome[p].body.markers \cap {"curl:", "Could not resolve"} = {}
         /\ searchOutcome[p].body.markers \cap {"<!DOCTYPE", "<html"} # {})
        => /\ Len(Items(p)) = 2
           /\ Items(p)[1].kind = "error"
           /\ Items(p)[1].title = <<"JSON API not enabled">>
           /\ Items(p)[1].arg = DocsUrl
           /\ Items(p)[1].valid = TRUE
           /\ Items(p)[2].kind = "fallback"

\* an "<html" body has been answered after two suggestions
C9_Witness ==
    \E p \in Procs :
        /\ Finished(p)
        /\ searchOutcome[p] = CurlPrinted(TextBody({"<html"}))
        /\ Len(suggestionItems[p]) = 2

\* the response search() gives for the state of p with an empty suggestion list
ResponseWithoutSuggestions(p) ==
    IF Len(requests[p]) = 1
    THEN ShortResponse(<<>>, parsed[p].query, searxngUrl, parsed[p].category,
                       parsed[p].timeRange)
    ELSE IF classification[p] = "ok"
    THEN OkResponse(<<>>, resultItems[p], parsed[p], searxngUrl)
    ELSE FailureResponse(classification[p], searchOutcome[p].body.json, parsed[p], <<>>,
                         searxngUrl)

\* C10: a failed autocomplete request, an empty body and a malformed body
\* give the response of an answer with an empty suggestion list; they give
\* no error item of their own, do not end the invocation with an exception,
\* and change neither whether the full search is issued nor how its
\* response is classified.
C10_AutocompleteBestEffort ==
    \A p \in Procs :
        (/\ requests[p] # <<>>
         /\ AutocompleteClass(acOutcome[p]) \in {"failed", "empty-body", "malformed"})
        => /\ suggestionItems[p] = <<>>
           /\ pc[p] = "crashed" => Len(requests[p]) = 2
           /\ FullSearchIssued(p) <=> shouldShowFullResults(parsed[p].query)
           /\ Len(requests[p]) = 2 => classification[p] = Classify(searchOutcome[p])
           /\ Finished(p)
              => /\ response[p] = ResponseWithoutSuggestions(p)
                 /\ "error" \in Kinds(p) => classification[p] \in FailureClasses

\* a search has been answered with results after a malformed autocomplete body
C10_Witness ==
    \E p \in Procs :
        /\ Finished(p)
        /\ acOutcome[p] = CurlPrinted(TextBody({}))
        /\ classification[p] = "ok"
        /\ Len(resultItems[p]) = 2


(***************************************************************************)
(* The favicon cache.                                                      *)
(***************************************************************************)
\* the icon getFaviconPath returned for the result the process has just
\* finished, read in the step in which it returns
ReturnedIcon(p) == resultItems'[p][Len(resultItems'[p])].icon
FaviconReturns(p) == Len(resultItems'[p]) = Len(resultItems[p]) + 1

\* C11: with two invocations running concurrently on one favicon cache
\* directory, every path other than icon.png that getFaviconPath returns names
\* a cache file that is complete at that moment, and a complete file stored
\* by a successful fetch is never removed (the only delete is the failure
\* cleanup of fetchFavicon).
C11_ConcurrentCacheBenign ==
    /\ [][\A p \in Procs :
            (FaviconReturns(p) /\ ReturnedIcon(p) # GenericIcon)
                => files'[ReturnedIcon(p)] = "complete"]_vars
    /\ [][\A f \in CacheFiles : files[f] = "complete" => files'[f] # "absent"]_vars

\* the process takes a step
Stepped(p) == pc'[p] # pc[p] \/ idx'[p] # idx[p]

\* C12: with no secret key configured every result item gets icon.png and
\* the invocation touches nothing of the favicon cache: no mkdir, no lookup,
\* no HMAC, no download, no write or delete, and the fetch counter stays 0.
C12_NoSecretKey ==
    CONFIG.secretKey = <<>> =>
        /\ \A f \in CacheFiles : files[f] = "absent"
        /\ \A p \in Procs :
              /\ cacheOps[p] = {}
              /\ faviconRequests[p] = 0
              /\ faviconFetchesThisSearch[p] = 0
              /\ ~cachedFaviconDir[p]
              /\ pc[p] \notin {"curl", "stat", "cleanup"}
              /\ \A i \in 1..Len(resultItems[p]) : resultItems[p][i].icon = GenericIcon

\* without a secret key, an ok response with results of two domains
C12_Witness ==
    \E p \in Procs :
        /\ CONFIG.secretKey = <<>>
        /\ Finished(p)
        /\ classification[p] = "ok"
        /\ results[p] = <<ResultA, ResultB>>
        /\ Len(resultItems[p]) = 2

\* the current result has a url that names a domain
Resolvable(p) ==
    /\ ~PropertyReadThrows(CurrentResult(p))
    /\ ~PropertyReadThrows(CurrentResult(p).url)

\* getFaviconPath returns icon in this step without starting a fetch
ReturnsWithoutFetch(p, icon) ==
    /\ FaviconReturns(p)
    /\ ReturnedIcon(p) = icon
    /\ faviconFetchesThisSearch'[p] = faviconFetchesThisSearch[p]
    /\ faviconRequests'[p] = faviconRequests[p]
    /\ cacheOps'[p] \subseteq cacheOps[p] \cup {"mkdir", "fileExists"}
    /\ pc'[p] # "curl"

\* C13: with a secret key, a lookup that finds the cache file of the domain
\* returns its path with no HMAC, no request and no change of the counter,
\* also when the budget is exhausted; a miss with the budget exhausted
\* returns icon.png without a fetch.
C13_CacheBeforeBudget ==
    [][\A p \in Procs :
         (pc[p] = "favicon" /\ Stepped(p) /\ CONFIG.secretKey # <<>> /\ Resolvable(p))
             => /\ files[CurrentPath(p)] # "absent"
                    => ReturnsWithoutFetch(p, CurrentPath(p))
                /\ (files[CurrentPath(p)] = "absent"
                      /\ faviconFetchesThisSearch[p] >= MAX_FAVICON_FETCHES_PER_SEARCH)
                    => ReturnsWithoutFetch(p, GenericIcon)]_vars

\* the budget was used up by failed fetches, the next result missed the
\* cache and got icon.png, and a later result was served from the cache
C13_Witness ==
    \E p \in Procs : \E i \in 1..Len(resultItems[p]) :
        /\ i > MAX_FAVICON_FETCHES_PER_SEARCH
        /\ faviconFetchesThisSearch[p] = MAX_FAVICON_FETCHES_PER_SEARCH
        /\ faviconRequests[p] = MAX_FAVICON_FETCHES_PER_SEARCH
        /\ \A j \in 1..(i - 1) : resultItems[p][j].icon = GenericIcon
        /\ resultItems[p][i].icon = FaviconPath(HostB)

C15_BuildResponse ==
    (call.fn = "buildResponse" /\ call.done) =>
        /\ call.output.items = call.input.items
        /\ call.output.cache.present
              <=> /\ call.input.enableResultCache
                  /\ call.input.cacheSeconds \notin {JUndefined, JNull}
                  /\ call.input.cacheSeconds.n >= 1
        /\ call.output.cache.present
              => /\ call.output.cache.seconds = call.input.cacheSeconds.n
                 /\ call.output.cache.loosereload

\* a call with caching enabled and 0 seconds, which gives no cache field
C15_Witness ==
    /\ call.fn = "buildResponse"
    /\ call.done
    /\ call.input.enableResultCache
    /\ call.input.cacheSeconds = JNumber(0)
    /\ Len(call.input.items) = 3
    /\ ~call.output.cache.present

\* parseBangs has been called on q
Parsed(q) == call.fn = "parseBangs" /\ call.done /\ call.input.query = q
ParsedAny == call.fn = "parseBangs" /\ call.done

\* the white-space delimited tokens of s
RECURSIVE SplitFrom(_, _, _)
SplitFrom(s, i, token) ==
    IF i > Len(s) THEN (IF token = <<>> THEN <<>> ELSE <<token>>)
    ELSE IF IsSpace(s[i])
         THEN (IF token = <<>> THEN <<>> ELSE <<token>>) \o SplitFrom(s, i + 1, <<>>)
         ELSE SplitFrom(s, i + 1, Append(token, s[i]))

TokensOf(s) == SplitFrom(s, 1, <<>>)

\* the dictionary keys, spelled out: category keys in iteration order
CategoryKeys == <<"!images", "!i", "!news", "!n", "!videos", "!v", "!maps">>
CategoryOf == <<"images", "images", "news", "news", "videos", "videos", "maps">>
TimeKeys == <<"!d", "!m", "!y">>
TimeOf == <<"day", "month", "year">>

\* the text of a key as a sequence of lower-case characters
KeyText(key) ==
    CASE key = "!images" -> <<"!", "i", "m", "a", "g", "e", "s">>
      [] key = "!i" -> <<"!", "i">>
      [] key = "!news" -> <<"!", "n", "e", "w", "s">>
      [] key = "!n" -> <<"!", "n">>
      [] key = "!videos" -> <<"!", "v", "i", "d", "e", "o", "s">>
      [] key = "!v" -> <<"!", "v">>
      [] key = "!maps" -> <<"!", "m", "a", "p", "s">>
      [] key = "!d" -> <<"!", "d">>
      [] key = "!m" -> <<"!", "m">>
      [] key = "!y" -> <<"!", "y">>

\* token is the key, in any case
IsKey(token, key) ==
    /\ Len(token) = Len(KeyText(key))
    /\ \A k \in 1..Len(token) :
          \/ token[k] = KeyText(key)[k]
          \/ \E u \in 1..Len(UpperCase) :
                token[k] = UpperCase[u] /\ LowerCase[u] = KeyText(key)[k]

\* the positions of the keys that some token of the list spells
KeysIn(tokens, keys) ==
    {k \in 1..Len(keys) : \E i \in 1..Len(tokens) : IsKey(tokens[i], keys[k])}

IsBangToken(token) ==
    KeysIn(<<token>>, CategoryKeys) # {} \/ KeysIn(<<token>>, TimeKeys) # {}

\* the tokens that are no recognized bang, in order
OtherTokens(tokens) == SelectSeq(tokens, LAMBDA t : ~IsBangToken(t))

LastOf(S) == CHOOSE k \in S : \A j \in S : j <= k

\* a run of white space as the final clean-up leaves it: three or more
\* become two spaces
Flush(ws) == IF Len(ws) >= 3 THEN <<" ", " ">> ELSE ws

RECURSIVE Squeeze(_, _)
Squeeze(s, ws) ==
    IF s = <<>> THEN Flush(ws)
    ELSE IF IsSpace(Head(s)) THEN Squeeze(Tail(s), Append(ws, Head(s)))
    ELSE Flush(ws) \o <<Head(s)>> \o Squeeze(Tail(s), <<>>)

\* C16: for a string with no recognized bang as a whole token, parseBangs
\* returns the string trimmed and with its runs of three or more white-space
\* characters collapsed to two spaces, and neither category nor timeRange;
\* the empty string and blank strings give the empty query.
C16_NoBangIdentity ==
    (ParsedAny /\ \A i \in 1..Len(TokensOf(call.input.query)) :
                     ~IsBangToken(TokensOf(call.input.query)[i]))
        => /\ call.output.query = Squeeze(trim(call.input.query), <<>>)
           /\ call.output.category = Undefined
           /\ call.output.timeRange = Undefined
           /\ TokensOf(call.input.query) = <<>> => call.output.query = <<>>

\* a padded query of an unknown bang, a bang inside a word and a word
C16_Witness ==
    /\ Parsed(<<" ", "!", "w", " ", "x", "!", "i", " ", "a", "b", " ", " ">>)
    /\ call.output.query = <<"!", "w", " ", "x", "!", "i", " ", "a", "b">>

\* a query whose long runs of white space were collapsed
C16_WitnessCollapsed ==
    /\ Parsed(<<"a", "b", " ", " ", " ", "a", "b">>)
    /\ call.output.query = <<"a", "b", " ", " ", "a", "b">>

C18_WholeTokenAnyCase ==
    ParsedAny =>
        LET tokens == TokensOf(call.input.query)
        IN  /\ TokensOf(call.output.query) = OtherTokens(tokens)
            /\ call.output.category # Undefined <=> KeysIn(tokens, CategoryKeys) # {}
            /\ call.output.timeRange # Undefined <=> KeysIn(tokens, TimeKeys) # {}

\* "!Images !ix x!i": the capitalized bang is taken, the other two stay
C18_Witness ==
    /\ Parsed(<<"!", "I", "m", "a", "g", "e", "s", " ", "!", "i", "x", " ", "x", "!", "i">>)
    /\ call.output.category = "images"
    /\ call.output.query = <<"!", "i", "x", " ", "x", "!", "i">>

\* C19: for a query of tokens separated by single spaces, without white
\* space around it, parseBangs returns the tokens that are no recognized
\* bang, in order, joined by single spaces.
C19_SingleSpaced ==
    (ParsedAny /\ call.input.query = Join(TokensOf(call.input.query), <<" ">>))
        => call.output.query = Join(OtherTokens(TokensOf(call.input.query)), <<" ">>)

\* a bang between two words
C19_Witness ==
    /\ Parsed(<<"a", "b", " ", "!", "i", " ", "x", "!", "i">>)
    /\ call.output.query = <<"a", "b", " ", "x", "!", "i">>

ParsedAutocomplete == call.fn = "parseAutocompleteResponse" /\ call.done

\* the argument is the text of a JSON array
IsJsonArray(d) == d.kind = "json" /\ d.json.t = "array"

\* the second element of the array, when it is a list
SecondIsList(d) == d.json.elems[2].t = "array"

\* C21 as stated: the list is returned only for an array of exactly two
\* elements whose second is a list, and everything else gives the empty list.
C21_Original ==
    ParsedAutocomplete =>
        LET d == call.input.responseData
        IN  call.output =
              (IF IsJsonArray(d) /\ Len(d.json.elems) = 2 /\ SecondIsList(d)
               THEN d.json.elems[2].elems ELSE <<>>)

\* C21: parseAutocompleteResponse returns the second element when the text
\* parses as a JSON array of at least two elements whose second element is a
\* list; null, the empty string, text that is no JSON, a value that is no
\* array, an array of fewer than two elements and a second element that is
\* no list give the empty list.  Every call returns a list.
C21_ParseAutocomplete ==
    ParsedAutocomplete =>
        LET d == call.input.responseData
        IN  /\ call.output =
                  (IF IsJsonArray(d) /\ Len(d.json.elems) >= 2 /\ SecondIsList(d)
                   THEN d.json.elems[2].elems ELSE <<>>)
            /\ call.output \in Seq({Suggestion(i) : i \in 1..MaxSuggestions})

\* an array of three elements, whose suggestions are returned
C21_Witness ==
    /\ ParsedAutocomplete
    /\ call.input.responseData =
          JsonBody({}, JArray(<<Echo, JArray(<<Suggestion(1), Suggestion(2)>>), JNull>>))
    /\ call.output = <<Suggestion(1), Suggestion(2)>>

\* the number of single quotes of a string
QuoteCount(str) == Cardinality({i \in 1..Len(str) : str[i] = QUOTE})

\* C22: shellEscape(s) starts and ends with a single quote and writes every
\* single quote of s as the four characters quote, backslash, quote, quote;
\* a POSIX shell reads it as exactly one word, which is s, with nothing
\* expanded or substituted; this holds for the empty string and for strings
\* with quotes, dollar signs, backquotes, backslashes and a leading dash.
C22_ShellEscapeRoundTrip ==
    (call.fn = "shellEscape" /\ call.done) =>
        LET str == call.input.str
            escaped == call.output
        IN  /\ Len(escaped) = Len(str) + 2 + 3 * QuoteCount(str)
            /\ escaped[1] = QUOTE
            /\ escaped[Len(escaped)] = QUOTE
            /\ \A i \in 1..Len(str) : str[i] = QUOTE =>
                  LET at == i + 1 + 3 * QuoteCount(SubSeq(str, 1, i - 1))
                  IN  SubSeq(escaped, at, at + 3) = <<QUOTE, BACKSLASH, QUOTE, QUOTE>>
            /\ ShellWords(escaped) = [words |-> <<str>>, expands |-> FALSE, closed |-> TRUE]
            /\ ShellWords(<<"c", "u", "r", "l", " ", "-", "-", " ">> \o escaped).words
                  = << <<"c", "u", "r", "l">>, <<"-", "-">>, str >>

\* a string of a quote, a dollar sign and a backquote
C22_Witness ==
    /\ call.fn = "shellEscape"
    /\ call.done
    /\ call.input.str = <<QUOTE, "$", BACKQUOTE>>
    /\ call.output = <<QUOTE, QUOTE, BACKSLASH, QUOTE, QUOTE, "$", BACKQUOTE, QUOTE>>

\* C23: the h parameter of the favicon proxy URL is the normalized digest:
\* what openssl printed without anything up to and including its last "= "
\* and without the white space around it, so that a labelled output and a
\* bare one give the same hex digits; an output with no digest gives no URL.
C23_NormalizedHmac ==
    (call.fn = "buildFaviconProxyUrl" /\ call.done /\ ~call.input.openssl.threw) =>
        LET digest == normalizeHmacOutput(JString(call.input.openssl.text))
        IN  /\ digest = <<>> => call.output = NoFaviconUrl
            /\ digest # <<>> => call.output = FaviconProxyUrl(<<"u">>, HostA, digest)

\* the filter value a token list asks for: that of the last dictionary key
\* some token spells, or none
FilterOf(tokens, keys, values) ==
    IF KeysIn(tokens, keys) = {} THEN Undefined ELSE values[LastOf(KeysIn(tokens, keys))]

\* a URL of the search page with the words and the filters of a raw query
CarriesQuery(url, raw) ==
    /\ url.type = "search"
    /\ url.base = searxngUrl
    /\ TokensOf(url.q) = OtherTokens(TokensOf(raw))
    /\ url.categories = FilterOf(TokensOf(raw), CategoryKeys, CategoryOf)
    /\ url.time_range = FilterOf(TokensOf(raw), TimeKeys, TimeOf)

\* C24: the search request goes to the search page of the backend with
\* format=json, with the query cleaned of every bang as q, with categories
\* exactly when a category bang was parsed and time_range exactly when a
\* time-range bang was parsed; the fallback item and the alt URL of every
\* result item carry the same q and the same filters, without format=json.
C24_SearchRequestFilters ==
    \A p \in Procs :
        Len(requests[p]) = 2 =>
            LET url == requests[p][2].url
            IN  /\ CarriesQuery(url, query[p])
                /\ url.format
                /\ Finished(p) =>
                      \A i \in 1..Len(Items(p)) :
                          /\ Items(p)[i].kind = "fallback" =>
                                Items(p)[i].arg = [url EXCEPT !.format = FALSE]
                          /\ Items(p)[i].kind = "result" =>
                                Items(p)[i].alt = [url EXCEPT !.format = FALSE]
                /\ (Finished(p) /\ classification[p] = "ok") =>
                      \E i \in 1..Len(Items(p)) : Items(p)[i].kind = "fallback"

\* "!n abcd !d" answered with results: news and day are sent, and the
\* result items and the fallback item carry them
C24_Witness ==
    \E p \in Procs :
        /\ Finished(p)
        /\ query[p] = <<"!", "n", " ", "a", "b", "c", "d", " ", "!", "d">>
        /\ Len(requests[p]) = 2
        /\ requests[p][2].url.q = <<"a", "b", "c", "d">>
        /\ requests[p][2].url.categories = "news"
        /\ requests[p][2].url.time_range = "day"
        /\ \E i, j \in 1..Len(Items(p)) :
              /\ Items(p)[i].kind = "result"
              /\ Items(p)[i].alt.categories = "news"
              /\ Items(p)[j].kind = "fallback"
              /\ Items(p)[j].arg.time_range = "day"

\* the position of the first character of s from i on that is no digit
RECURSIVE DigitsEnd(_, _)
DigitsEnd(s, i) == IF i <= Len(s) /\ IsDigit(s[i]) THEN DigitsEnd(s, i + 1) ELSE i

\* the number a string of digits writes
RECURSIVE Decimal(_)
Decimal(digits) ==
    IF digits = <<>> THEN 0
    ELSE 10 * Decimal(SubSeq(digits, 1, Len(digits) - 1)) + DigitValue(digits[Len(digits)])

\* the positive number a setting starts with after white space and an
\* optional plus sign, or 0 when it starts with none
LeadingNumber(env) ==
    IF ~env.set THEN 0
    ELSE LET s == trimStart(env.text)
             from == IF s # <<>> /\ s[1] = "+" THEN 2 ELSE 1
         IN  Decimal(SubSeq(s, from, DigitsEnd(s, from) - 1))

TimeoutsComputed == call.fn = "timeouts" /\ call.done

\* C25: timeoutMs is an integer in 1..30000: 5000 when the setting is unset,
\* empty, not numeric, zero or negative, the number the setting starts with
\* otherwise, capped at 30000.  The autocomplete request gets
\* min(ceil(timeoutMs / 1000), 2) seconds, which is 1 or 2, and the search
\* request ceil(timeoutMs / 1000) seconds, which is in 1..30.
C25_TimeoutBounds ==
    TimeoutsComputed =>
        LET n == LeadingNumber(call.input.timeout_ms)
            ms == call.output.timeoutMs
            secs == call.output.search
        IN  /\ ms \in 1..30000
            /\ n = 0 => ms = 5000
            /\ n \in 1..30000 => ms = n
            /\ n > 30000 => ms = 30000
            /\ secs \in 1..30
            /\ 1000 * (secs - 1) < ms /\ ms <= 1000 * secs
            /\ call.output.autocomplete \in 1..2
            /\ call.output.autocomplete = (IF secs < 2 THEN secs ELSE 2)

\* a setting of 30001 ms: capped at 30000, 30 seconds for the search
\* request and 2 for the autocomplete request
C25_Witness ==
    /\ TimeoutsComputed
    /\ call.input.timeout_ms = EnvText(<<"3", "0", "0", "0", "1">>)
    /\ call.output = [timeoutMs |-> 30000, autocomplete |-> 2, search |-> 30]

\* a setting of 1 ms gives both requests one second
C25_WitnessOneSecond ==
    /\ TimeoutsComputed
    /\ call.input.timeout_ms = EnvText(<<" ", "1", "x">>)
    /\ call.output = [timeoutMs |-> 1, autocomplete |-> 1, search |-> 1]

\* the raw query of p passes the three guards: the backend URL is set and
\* the query has a word that is no recognized bang
PassesGuards(p) ==
    /\ stripTrailingSlashes(CONFIG.searxngUrl) # <<>>
    /\ OtherTokens(TokensOf(query[p])) # <<>>

\* the kinds of the requests p has sent, in order
RequestTypes(p) == [i \in 1..Len(requests[p]) |-> requests[p][i].url.type]

InFaviconResolver(p) == pc[p] \in {"favicon", "curl", "stat", "cleanup"}

C26_WitnessSearchFailed ==
    \E p \in Procs :
        /\ Finished(p)
        /\ searchOutcome[p].threw
        /\ RequestTypes(p) = <<"autocompleter", "search">>

\* the values JavaScript takes for false among the ones of the model
FalsyValues == {JUndefined, JNull, JNumber(0), JString(<<>>)}

\* the field of a parsed body, absent when the body is no object with it
FieldOf(json, field) ==
    IF json.t = "object" /\ field \in DOMAIN json THEN json[field] ELSE JUndefined

\* the classes of a search outcome in the order in which they are tried
ClassOrder ==
    <<"network-error", "empty-response", "html-not-json", "invalid-response", "api-error",
      "no-results", "ok">>

\* the condition of a class, read on the outcome alone
ClassCondition(class, outcome) ==
    LET body == outcome.body
    IN  CASE class = "network-error" ->
               \/ outcome.threw
               \/ body.kind = "empty"
               \/ body.markers \cap {"curl:", "Could not resolve"} # {}
          [] class = "empty-response" -> body.kind = "blank"
          [] class = "html-not-json" ->
               body.kind # "json" /\ body.markers \cap {"<!DOCTYPE", "<html"} # {}
          [] class = "invalid-response" -> body.kind # "json"
          [] class = "api-error" -> FieldOf(body.json, "error") \notin FalsyValues
          [] class = "no-results" ->
               \/ FieldOf(body.json, "results") \in FalsyValues
               \/ FieldOf(body.json, "results") = JArray(<<>>)
          [] class = "ok" -> TRUE

\* the first class of the order whose condition holds
FirstMatch(outcome) ==
    ClassOrder[CHOOSE k \in 1..Len(ClassOrder) :
                  /\ ClassCondition(ClassOrder[k], outcome)
                  /\ \A j \in 1..(k - 1) : ~ClassCondition(ClassOrder[j], outcome)]

\* C27: the outcome of every search request is put into the first class
\* whose condition it meets, in the order network-error, empty-response,
\* html-not-json, invalid-response, api-error, no-results, ok; an api-error
\* response shows none of the results of the body.
C27_FirstMatchClass ==
    \A p \in Procs :
        Len(requests[p]) = 2 =>
            /\ classification[p] = FirstMatch(searchOutcome[p])
            /\ (Finished(p) /\ classification[p] = "api-error") => "result" \notin Kinds(p)

\* the classification of every body other than the JSON text null
C27_ExceptNull ==
    \A p \in Procs :
        (Len(requests[p]) = 2 /\ searchOutcome[p] # CurlPrinted(JsonBody({}, JNull))) =>
            /\ classification[p] = FirstMatch(searchOutcome[p])
            /\ (Finished(p) /\ classification[p] = "api-error") => "result" \notin Kinds(p)

\* a JSON body with results and the text "curl:" was reported as a network
\* error
C27_WitnessCurlText ==
    \E p \in Procs :
        /\ Finished(p)
        /\ searchOutcome[p] =
              CurlPrinted(JsonBody({"curl:"}, JResponse(JUndefined, JArray(<<ResultA>>))))
        /\ classification[p] = "network-error"

\* a JSON body with an error field and results was reported as an API error
C27_WitnessErrorAndResults ==
    \E p \in Procs :
        /\ Finished(p)
        /\ searchOutcome[p] =
              CurlPrinted(JsonBody({}, JResponse(JString(<<"e">>), JArray(<<ResultA>>))))
        /\ classification[p] = "api-error"
        /\ Len(Items(p)) = 2

\* the domains with a cache file between invocations
CachedFiles == {f \in CacheFiles : files[f] = "complete"}

\* C28: an invocation never removes or rewrites a complete cache file: the
\* download starts only for a file that is absent at the lookup, the
\* download and the cleanup touch the file of the current result only, and
\* the cleanup never meets a complete file, so the set of cached files only
\* grows from one invocation to the next; a result whose domain has a
\* complete file gets its path with no fetch and no use of the budget, in
\* the invocation that stored it and in later ones.
C28_NoEviction ==
    /\ [](\A p \in Procs : pc[p] = "curl" => files[CurrentPath(p)] = "absent")
    /\ [][/\ CachedFiles \subseteq {f \in CacheFiles : files'[f] = "complete"}
          /\ \A p \in Procs :
                /\ invocations'[p] # invocations[p] => files' = files
                /\ (pc[p] = "cleanup" /\ Stepped(p))
                      => files[CurrentPath(p)] \in {"absent", "empty", "partial"}
                /\ (pc[p] = "favicon" /\ pc'[p] = "curl")
                      => files[CurrentPath(p)] = "absent"
                /\ (pc[p] = "favicon" /\ Stepped(p) /\ Resolvable(p)
                       /\ files[CurrentPath(p)] = "complete")
                      => ReturnsWithoutFetch(p, CurrentPath(p))
          /\ files' # files
                => \E p \in Procs :
                      /\ pc[p] \in {"curl", "cleanup"}
                      /\ Stepped(p)
                      /\ \A f \in CacheFiles \ {CurrentPath(p)} : files'[f] = files[f]]_vars

\* a second invocation has answered from the cache alone: the file of its
\* result was stored by the first one, and it downloaded nothing
C28_Witness ==
    \E p \in Procs :
        /\ Finished(p)
        /\ invocations[p] = 2
        /\ faviconFetchesThisSearch[p] = 0
        /\ faviconRequests[p] = 0
        /\ Len(resultItems[p]) = 2
        /\ \A i \in 1..2 : resultItems[p][i].icon = FaviconPath(HostA)
        /\ files[FaviconPath(HostA)] = "complete"

\* the cache directive the outcome of a finished invocation calls for
ExpectedCache(p) ==
    IF ~PassesGuards(p) THEN NoCache
    ELSE IF searchOutcome[p] = NoOutcome THEN Cache(30)
    ELSE IF FirstMatch(searchOutcome[p]) = "ok" THEN Cache(60)
    ELSE IF FirstMatch(searchOutcome[p]) = "no-results" /\ suggestionItems[p] # <<>>
    THEN Cache(60)
    ELSE NoCache

\* C29: a response carries a cache directive in three outcomes only: 30
\* seconds for the response of a short query, 60 seconds for no results
\* with at least one suggestion and for success, with loosereload true; the
\* response of a guard and of every failure has no cache field; every
\* response has at least one item.
C29_CacheDirective ==
    \A p \in Procs :
        Finished(p) =>
            /\ response[p].cache = ExpectedCache(p)
            /\ response[p].cache \in
                  {[present |-> FALSE, seconds |-> 0, loosereload |-> FALSE],
                   [present |-> TRUE, seconds |-> 30, loosereload |-> TRUE],
                   [present |-> TRUE, seconds |-> 60, loosereload |-> TRUE]}
            /\ Len(Items(p)) >= 1

\* no results after two suggestions: cached for 60 seconds
C29_Witness ==
    \E p \in Procs :
        /\ Finished(p)
        /\ classification[p] = "no-results"
        /\ Len(suggestionItems[p]) = 2
        /\ response[p].cache = Cache(60)

\* a network error after two suggestions: not cached
C29_WitnessFailure ==
    \E p \in Procs :
        /\ Finished(p)
        /\ classification[p] = "network-error"
        /\ Len(suggestionItems[p]) = 2
        /\ response[p].cache = NoCache

\* a short query without suggestions: the fallback item, cached for 30 seconds
C29_WitnessShort ==
    \E p \in Procs :
        /\ Finished(p)
        /\ Len(requests[p]) = 1
        /\ Kinds(p) = {"fallback"}
        /\ response[p].cache = Cache(30)

\* C30: the query parseBangs returns holds no recognized bang as a token,
\* in any letter case, also for repeated and adjacent bangs, and parseBangs
\* applied to it returns it unchanged with neither category nor timeRange;
\* the removal loops end for every input.
C30_RemovesAllIdempotent ==
    ParsedAny =>
        /\ \A i \in 1..Len(TokensOf(call.output.query)) :
              ~IsBangToken(TokensOf(call.output.query)[i])
        /\ parseBangs(call.output.query) =
              [query |-> call.output.query, category |-> Undefined, timeRange |-> Undefined]

\* "!i !I ab": the second bang is next to the first and survives the first
\* pass; both are gone from the query
C30_Witness ==
    /\ Parsed(<<"!", "i", " ", "!", "I", " ", "a", "b">>)
    /\ call.output = [query |-> <<"a", "b">>, category |-> "images", timeRange |-> Undefined]

\* three bangs in a row leave the empty query
C30_WitnessOnlyBangs ==
    /\ Parsed(<<"!", "i", " ", "!", "i", " ", "!", "i">>)
    /\ call.output.query = <<>>

====
